---- MODULE Spec2Model ----
(***************************************************************************)
(* VibeCapsule: the provider-agnostic streaming gateway.                   *)
(*                                                                         *)
(* The three network decoders (OpenAI.summarize, Anthropic.summarize,      *)
(* Gemini.summarize) are modelled at the level the code works at: bytes    *)
(* arrive in chunks, a streaming TextDecoder turns them into characters,   *)
(* the characters are appended to `buffer`, and the buffer is framed into  *)
(* lines (event-stream formats A and B) or into balanced {...} spans       *)
(* (format C).  Each framed unit goes through JSON.parse and a property    *)
(* path, inside a try/catch.                                               *)
(*                                                                         *)
(* Text is a sequence of one-character strings.  A byte is the character   *)
(* itself for ASCII; the two bytes of the UTF-8 encoding of U+00E9 are     *)
(* written "C3" and "A9", and the decoded character is written "U+E9".     *)
(***************************************************************************)
EXTENDS Integers, Sequences, FiniteSets, Bags, TLC

VARIABLES
    provider,   \* which gateway's summarize is running
    desc,       \* the logical messages the server sends (input, never changes)
    wire,       \* the bytes of the response body (input, never changes)
    pos,        \* number of bytes the reader has delivered so far
    pending,    \* bytes held back by the streaming TextDecoder
    buffer,     \* summarize's `buffer`
    out,        \* the values yielded so far, in order
    status,     \* "reading" | "done" (reader done) | "returned" ([DONE]) | "error"
    chunked,    \* TRUE once a read delivered less than the whole body
    whole       \* what the same body yields when it arrives as one chunk

\* the variables of the decoding state machine (Spec)
decodeVars == <<provider, desc, wire, pos, pending, buffer, out, status, chunked, whole>>

VARIABLES
    caller,      \* who consumes the stream: "handleSummarize" | "consumer"
    hs,          \* position of the caller: "idle" | "query" | "extract" | "consume" | "ended"
    uiStatus,    \* App's `status`: "idle" | "loading" | "streaming" | "error"
    summary,     \* App's `summary` (characters)
    errorMsg,    \* App's `errorMsg` (a message, see Message below)
    view,        \* App's `view`
    gen,         \* position of the summarize generator
    todo,        \* values the current loop iteration has still to yield
    after,       \* what the iteration does once todo is empty: "read" | "return"
    errVal,      \* the message of the error the generator threw
    errors,      \* number of errors thrown out of the generator
    completions, \* number of times the generator completed normally
    reader,      \* res.body.getReader(): "none" | "locked" | "cancelled"
    session,     \* ai.languageModel.create(): "none" | "open" | "destroyed"
    destroys,    \* number of session.destroy() calls
    runs,        \* streams started so far
    res,         \* the Response fetch resolved with
    ai,          \* what summarize found of self.ai: "missing", or capabilities().available
    currentKey,  \* App's `currentKey`: the stored key of the provider, or 'CHROME_AI'
    contentArg,  \* the text summarize was called with (a JS value)
    requests     \* number of fetch and languageModel.create calls since the click

\* the variables of a summarize run (SpecRun), besides provider, wire, pos,
\* pending, buffer and out, which keep their meaning
runVars == <<caller, hs, uiStatus, summary, errorMsg, view, gen, todo, after,
             errVal, errors, completions, reader, session, destroys, runs, res, ai,
             currentKey, contentArg, requests>>

\* the run variables that belong to the stream only (errorMsg and view are
\* App state that the settings handlers write as well)
streamVars == <<caller, hs, uiStatus, summary, gen, todo, after,
                errVal, errors, completions, reader, session, destroys, runs, res, ai,
                currentKey, contentArg, requests>>

VARIABLES
    apiKeys,           \* openaiKey, anthropicKey, geminiKey (characters)
    timeouts,          \* per provider, the debounce timeouts that are pending
    timerRef,          \* openaiTimer.current, anthropicTimer.current, geminiTimer.current
    now,               \* the clock, in ms
    cachedModels,      \* the stored model cache
    inflight,          \* the getModels calls that have not returned yet (a bag)
    isFetchingModels,  \* App's `isFetchingModels`
    selectedProvider,  \* the stored selected provider
    selectedModel,     \* the stored selected model
    verifyingProvider, \* App's `verifyingProvider`
    verifiedProvider,  \* App's `verifiedProvider`
    backTimers,        \* deadlines of the pending navigate-back timeouts
    burst,             \* per provider, the current run of valid edits and the calls it caused
    lastDone,          \* the getModels call that returned last, and what it returned
    acts,              \* number of credential edits and of clicks on Refresh and Check
    order,             \* per provider: calls issued, and which call's list is cached
    models,            \* the list given to pickBestModel
    bestModel,         \* what pickBestModel returned
    currentModels,     \* what the catalog lookup gave
    applied            \* which of the two functions have been applied

VARIABLES
    customPrompt,      \* options.customPrompt given to constructPrompt
    language,          \* options.language given to constructPrompt
    systemInstruction, \* constructPrompt's `systemInstruction`
    prompt             \* what constructPrompt returned

promptVars == <<customPrompt, language, systemInstruction, prompt>>

VARIABLES
    method,            \* the gateway method called: validateKey or getModels
    apiKey,            \* its argument
    server,            \* how the provider's server answers a list request
    stage,             \* where the call is: called, awaiting the response, returned
    listRequests,      \* number of list requests the call has sent
    result             \* what the call returned

VARIABLES
    globals,           \* what self.ai and window.ai are in this browser
    availability,      \* what getAvailability returned
    chromeAIStatus,    \* the App's state of that name
    probe,             \* checkChromeAI: "pending" until its await resolves
    stored,            \* chrome.storage.local: per key, the item it holds
    opened,            \* chrome.storage.local as it was when the panel opened
    value,             \* per useStorage hook, its in-memory value
    channel,           \* per key, the get result and change events not yet delivered
    panelActs          \* number of user and network events so far

panelVars == <<globals, availability, chromeAIStatus, probe, stored, opened, value, channel,
               panelActs>>

gatewayVars == <<method, apiKey, server, stage, listRequests, result, panelVars>>

catalogVars == <<apiKeys, timeouts, timerRef, now, cachedModels, inflight, isFetchingModels,
                 selectedProvider, selectedModel, verifyingProvider, verifiedProvider,
                 backTimers, burst, lastDone, acts, order>>

pickVars == <<models, bestModel, currentModels, applied, promptVars, gatewayVars>>

vars == <<decodeVars, runVars, catalogVars, pickVars>>

(***************************************************************************)
(* Bounds of the model.                                                    *)
(***************************************************************************)
MaxUnits == 2
MaxChunk == 2
MaxRuns == 2
MaxTokens == 2
MaxModels == 3
MaxActs == 2
MaxTicks == 3

(***************************************************************************)
(* Characters and small string helpers (JavaScript String methods).        *)
(***************************************************************************)
QUOTE == "\""
BSL == "\\"
LF == "\n"
CR == "\r"
TAB == "\t"
REPLACEMENT == "U+FFFD"

Whitespace == {" ", LF, CR, TAB}

\* A loop `for (i = lo; i <= hi; i++) st = Body(st, i)` that ends early once
\* st.stop is set (break, return).  The range is halved rather than walked,
\* which keeps the evaluation shallow on long inputs; the steps run in order.
RECURSIVE For(_, _, _, _)
For(Body(_, _), st, lo, hi) ==
    IF lo > hi \/ st.stop THEN st
    ELSE IF lo = hi THEN Body(st, lo)
    ELSE LET mid == (lo + hi) \div 2
             half == For(Body, st, lo, mid)
         IN For(Body, half, mid + 1, hi)

Last(s) == s[Len(s)]
Front(s) == SubSeq(s, 1, Len(s) - 1)

\* JavaScript s.slice(n) for 0 <= n
Slice(s, n) == SubSeq(s, n + 1, Len(s))

StartsWith(s, p) == Len(s) >= Len(p) /\ SubSeq(s, 1, Len(p)) = p

RECURSIVE TrimLeft(_)
TrimLeft(s) ==
    IF s # <<>> /\ Head(s) \in Whitespace THEN TrimLeft(Tail(s)) ELSE s

RECURSIVE TrimRight(_)
TrimRight(s) ==
    IF s # <<>> /\ Last(s) \in Whitespace THEN TrimRight(Front(s)) ELSE s

Trim(s) == TrimRight(TrimLeft(s))

\* JavaScript indices are 0-based: s[i] (undefined outside the string),
\* s.substring(a, b), s.substring(a), s.indexOf(c, from) (-1 when absent).
CharAt(s, i) == IF i < 0 \/ i >= Len(s) THEN "undefined" ELSE s[i + 1]
Substring(s, a, b) == SubSeq(s, a + 1, b)
SubstringFrom(s, a) == SubSeq(s, a + 1, Len(s))

IndexOf(s, c, from) ==
    LET hits == {i \in from..(Len(s) - 1) : CharAt(s, i) = c} IN
    IF hits = {} THEN -1 ELSE CHOOSE i \in hits : \A j \in hits : i <= j

\* s.split('\n'): always at least one element, the last one is what follows
\* the last line terminator (possibly empty).
RECURSIVE SplitFrom(_, _)
SplitFrom(s, from) ==
    LET nl == IndexOf(s, LF, from) IN
    IF nl = -1 THEN <<SubstringFrom(s, from)>>
    ELSE <<Substring(s, from, nl)>> \o SplitFrom(s, nl + 1)

SplitLines(s) == SplitFrom(s, 0)

(***************************************************************************)
(* new TextDecoder().decode(value, { stream: true }): UTF-8, an incomplete *)
(* sequence at the end of a chunk is held until the next call.             *)
(***************************************************************************)
LeadByte == "C3"
ContByte == "A9"
EAcute == "U+E9"

\* one byte arriving with nothing held
DecodeFresh(acc, b) ==
    IF b = LeadByte THEN [text |-> acc, pending |-> <<b>>, stop |-> FALSE]
    ELSE IF b = ContByte THEN [text |-> Append(acc, REPLACEMENT), pending |-> <<>>, stop |-> FALSE]
    ELSE [text |-> Append(acc, b), pending |-> <<>>, stop |-> FALSE]

\* one byte: it completes the held lead byte, or the held byte is malformed
\* (U+FFFD) and the byte is looked at afresh
DecodeByte(st, b) ==
    IF st.pending = <<>> THEN DecodeFresh(st.text, b)
    ELSE IF b = ContByte THEN [text |-> Append(st.text, EAcute), pending |-> <<>>, stop |-> FALSE]
    ELSE DecodeFresh(Append(st.text, REPLACEMENT), b)

TextDecode(pend, bytes) ==
    LET Step(st, i) == DecodeByte(st, bytes[i]) IN
    For(Step, [text |-> <<>>, pending |-> pend, stop |-> FALSE], 1, Len(bytes))

(***************************************************************************)
(* JavaScript values, as far as JSON.parse produces them, plus undefined.  *)
(* One record shape for all of them: t is the type tag, s the characters   *)
(* of a string (or the digits of a number, or "true"/"false"), keys and    *)
(* items the members of an object, items the elements of an array.         *)
(***************************************************************************)
JVal(t, s, keys, items) == [t |-> t, s |-> s, keys |-> keys, items |-> items]
Undefined == JVal("undefined", <<>>, <<>>, <<>>)
JNull == JVal("null", <<>>, <<>>, <<>>)
JStr(s) == JVal("str", s, <<>>, <<>>)
JNum(s) == JVal("num", s, <<>>, <<>>)
JBool(s) == JVal("bool", s, <<>>, <<>>)
JArr(items) == JVal("arr", <<>>, <<>>, items)
JObj(keys, items) == JVal("obj", <<>>, keys, items)

IsNullish(v) == v.t \in {"undefined", "null"}

\* if (v) ...
Truthy(v) ==
    CASE v.t = "str" -> v.s # <<>>
      [] v.t = "num" -> v.s \notin {<<"0">>, <<"-", "0">>}
      [] v.t = "bool" -> v.s = <<"t", "r", "u", "e">>
      [] v.t \in {"obj", "arr"} -> TRUE
      [] OTHER -> FALSE

\* v.key for a v that is neither null nor undefined (the caller decides what
\* a null or undefined v does: a TypeError, or undefined under ?.).
\* JSON.parse keeps the last of duplicate keys.
RECURSIVE Lookup(_, _, _)
Lookup(v, key, i) ==
    IF i = 0 THEN Undefined
    ELSE IF v.keys[i] = key THEN v.items[i]
    ELSE Lookup(v, key, i - 1)

GetProp(v, key) ==
    IF v.t = "obj" THEN Lookup(v, key, Len(v.keys)) ELSE Undefined

\* v[0] for a v that is neither null nor undefined
Index0(v) ==
    CASE v.t = "arr" -> IF v.items # <<>> THEN v.items[1] ELSE Undefined
      [] v.t = "str" -> IF v.s # <<>> THEN JStr(<<v.s[1]>>) ELSE Undefined
      [] v.t = "obj" -> GetProp(v, <<"0">>)
      [] OTHER -> Undefined

\* v?.key and v?.[0]
OptProp(v, key) == IF IsNullish(v) THEN Undefined ELSE GetProp(v, key)
OptIndex0(v) == IF IsNullish(v) THEN Undefined ELSE Index0(v)

(***************************************************************************)
(* JSON.parse.  Covered: objects, arrays, strings with the two-character   *)
(* escapes, integers, true/false/null, whitespace between tokens.  Not     *)
(* covered (and never produced by the inputs below): \uXXXX escapes,       *)
(* fractions and exponents; they are rejected.                             *)
(***************************************************************************)
PFail == [ok |-> FALSE, val |-> Undefined, next |-> 0]
POk(v, n) == [ok |-> TRUE, val |-> v, next |-> n]

Digits == {"0", "1", "2", "3", "4", "5", "6", "7", "8", "9"}
JsonWs == {" ", LF, CR, TAB}
Escapes == {QUOTE, BSL, "/", "n", "r", "t", "b", "f"}

Unescape(e) ==
    CASE e = "n" -> LF
      [] e = "r" -> CR
      [] e = "t" -> TAB
      [] e = "b" -> "U+8"
      [] e = "f" -> "\f"
      [] OTHER -> e

RECURSIVE SkipWs(_, _)
SkipWs(s, i) == IF i <= Len(s) /\ s[i] \in JsonWs THEN SkipWs(s, i + 1) ELSE i

\* s[i - 1] is the opening quote: the characters up to the closing quote
RECURSIVE StringFrom(_, _, _)
StringFrom(s, j, acc) ==
    IF j > Len(s) THEN PFail
    ELSE IF s[j] = QUOTE THEN POk(JStr(acc), j + 1)
    ELSE IF s[j] = BSL
         THEN IF j + 1 <= Len(s) /\ s[j + 1] \in Escapes
              THEN StringFrom(s, j + 2, Append(acc, Unescape(s[j + 1])))
              ELSE PFail
    ELSE IF s[j] \in {LF, CR, TAB} THEN PFail
    ELSE StringFrom(s, j + 1, Append(acc, s[j]))

RECURSIVE DigitsEnd(_, _)
DigitsEnd(s, i) == IF i <= Len(s) /\ s[i] \in Digits THEN DigitsEnd(s, i + 1) ELSE i

NumberAt(s, i) ==
    LET d == IF s[i] = "-" THEN i + 1 ELSE i
        e == IF d <= Len(s) /\ s[d] = "0" THEN d + 1 ELSE DigitsEnd(s, d)
    IN IF e = d THEN PFail ELSE POk(JNum(SubSeq(s, i, e - 1)), e)

LiteralAt(s, i, word, v) ==
    IF i + Len(word) - 1 <= Len(s) /\ SubSeq(s, i, i + Len(word) - 1) = word
    THEN POk(v, i + Len(word))
    ELSE PFail

RECURSIVE ValueAt(_, _)
RECURSIVE MembersFrom(_, _, _, _)
RECURSIVE ElementsFrom(_, _, _)

\* one value starting at s[i], leading whitespace skipped
ValueAt(s, i0) ==
    LET i == SkipWs(s, i0) IN
    IF i > Len(s) THEN PFail
    ELSE CASE s[i] = "{" ->
                LET j == SkipWs(s, i + 1) IN
                IF j <= Len(s) /\ s[j] = "}" THEN POk(JObj(<<>>, <<>>), j + 1)
                ELSE MembersFrom(s, j, <<>>, <<>>)
           [] s[i] = "[" ->
                LET j == SkipWs(s, i + 1) IN
                IF j <= Len(s) /\ s[j] = "]" THEN POk(JArr(<<>>), j + 1)
                ELSE ElementsFrom(s, j, <<>>)
           [] s[i] = QUOTE -> StringFrom(s, i + 1, <<>>)
           [] s[i] \in Digits \cup {"-"} -> NumberAt(s, i)
           [] s[i] = "t" -> LiteralAt(s, i, <<"t", "r", "u", "e">>, JBool(<<"t", "r", "u", "e">>))
           [] s[i] = "f" -> LiteralAt(s, i, <<"f", "a", "l", "s", "e">>, JBool(<<"f", "a", "l", "s", "e">>))
           [] s[i] = "n" -> LiteralAt(s, i, <<"n", "u", "l", "l">>, JNull)
           [] OTHER -> PFail

\* "key": value pairs up to the closing brace; s[i] is where a key must start
MembersFrom(s, i, keys, items) ==
    IF i > Len(s) \/ s[i] # QUOTE THEN PFail
    ELSE LET k == StringFrom(s, i + 1, <<>>) IN
         IF ~k.ok THEN PFail
         ELSE LET c == SkipWs(s, k.next) IN
              IF c > Len(s) \/ s[c] # ":" THEN PFail
              ELSE LET v == ValueAt(s, c + 1) IN
                   IF ~v.ok THEN PFail
                   ELSE LET e == SkipWs(s, v.next)
                            ks == Append(keys, k.val.s)
                            is == Append(items, v.val)
                        IN IF e > Len(s) THEN PFail
                           ELSE IF s[e] = "}" THEN POk(JObj(ks, is), e + 1)
                           ELSE IF s[e] = "," THEN MembersFrom(s, SkipWs(s, e + 1), ks, is)
                           ELSE PFail

\* values up to the closing bracket
ElementsFrom(s, i, items) ==
    LET v == ValueAt(s, i) IN
    IF ~v.ok THEN PFail
    ELSE LET e == SkipWs(s, v.next)
             is == Append(items, v.val)
         IN IF e > Len(s) THEN PFail
            ELSE IF s[e] = "]" THEN POk(JArr(is), e + 1)
            ELSE IF s[e] = "," THEN ElementsFrom(s, e + 1, is)
            ELSE PFail

\* JSON.parse(s): ok = FALSE is the SyntaxError
JSONParse(s) ==
    LET v == ValueAt(s, 1) IN
    IF v.ok /\ SkipWs(s, v.next) > Len(s) THEN v ELSE PFail

(***************************************************************************)
(* The literals of the three decoders, as character sequences.             *)
(***************************************************************************)
W_data == <<"d", "a", "t", "a", ":", " ">>
W_event == <<"e", "v", "e", "n", "t", ":", " ">>
W_DONE == <<"[", "D", "O", "N", "E", "]">>
W_dataDONE == <<"d", "a", "t", "a", ":", " ", "[", "D", "O", "N", "E", "]">>
W_choices == <<"c", "h", "o", "i", "c", "e", "s">>
W_delta == <<"d", "e", "l", "t", "a">>
W_content == <<"c", "o", "n", "t", "e", "n", "t">>
W_type == <<"t", "y", "p", "e">>
W_text == <<"t", "e", "x", "t">>
W_content_block_delta == <<"c", "o", "n", "t", "e", "n", "t", "_", "b", "l", "o", "c", "k", "_", "d", "e", "l", "t", "a">>
W_text_delta == <<"t", "e", "x", "t", "_", "d", "e", "l", "t", "a">>
W_candidates == <<"c", "a", "n", "d", "i", "d", "a", "t", "e", "s">>
W_parts == <<"p", "a", "r", "t", "s">>

(***************************************************************************)
(* What one pass over the framed units of a chunk gives: the values        *)
(* yielded, whether the generator returned ([DONE]) and whether an         *)
(* exception left the generator.                                           *)
(***************************************************************************)
Nothing == [frags |-> <<>>, returned |-> FALSE, abort |-> FALSE]
Yield(v) == [frags |-> <<v>>, returned |-> FALSE, abort |-> FALSE]
Return == [frags |-> <<>>, returned |-> TRUE, abort |-> FALSE]
Throw == [frags |-> <<>>, returned |-> FALSE, abort |-> TRUE]

\* a property path either gives a value or throws a TypeError
Got(v) == [threw |-> FALSE, val |-> v]
TypeError == [threw |-> TRUE, val |-> Undefined]

\* for (const line of lines) { ... }: the loop's state before the first line,
\* and after one more line gave r; a return or a throw ends the loop
LoopStart == [frags |-> <<>>, returned |-> FALSE, abort |-> FALSE, stop |-> FALSE]
Join(st, r) ==
    [frags |-> st.frags \o r.frags, returned |-> r.returned, abort |-> r.abort,
     stop |-> r.returned \/ r.abort]

\* what one iteration of while (true) leaves: the new buffer and what the
\* pass over the framed units gave
Fed(buf, r) ==
    [buffer |-> buf, frags |-> r.frags, returned |-> r.returned, abort |-> r.abort]

(***************************************************************************)
(* OpenAI.summarize, the read loop (event-stream format A).                *)
(***************************************************************************)
\* json.choices[0]?.delta?.content
OpenAIPath(json) ==
    IF IsNullish(json) THEN TypeError
    ELSE LET choices == GetProp(json, W_choices) IN
         IF IsNullish(choices) THEN TypeError
         ELSE Got(OptProp(OptProp(Index0(choices), W_delta), W_content))

\* catch (e) { console.warn('Parse error', e); }
OpenAICatch == Nothing

\* a variant that yields whatever is neither null nor undefined
OpenAIEmitDefined(content) == IF IsNullish(content) THEN Nothing ELSE Yield(content)

\* if (content) yield content;
OpenAIEmit(content) == IF Truthy(content) THEN Yield(content) ELSE Nothing

\* const content = ...; if (content) yield content;  a TypeError in the
\* property path goes to the catch
OpenAIContent(content) ==
    IF content.threw THEN OpenAICatch ELSE OpenAIEmit(content.val)

\* try { const json = JSON.parse(...); ... } catch: a SyntaxError goes to the
\* catch
OpenAITry(parsed) ==
    IF ~parsed.ok THEN OpenAICatch ELSE OpenAIContent(OpenAIPath(parsed.val))

\* the try block of a 'data: ' line
OpenAIData(line) == OpenAITry(JSONParse(Slice(line, 6)))

\* a variant that looks for the bare sentinel, without the 'data: ' prefix
OpenAIIsDoneBare(line) == Trim(line) = W_DONE

\* if (line.trim() === 'data: [DONE]') return;
OpenAIIsDone(line) == Trim(line) = W_dataDONE

\* the body of `for (const line of lines)`
OpenAILine(line) ==
    IF Trim(line) = <<>> THEN Nothing
    ELSE IF OpenAIIsDone(line) THEN Return
    ELSE IF StartsWith(line, W_data) THEN OpenAIData(line)
    ELSE Nothing

\* for (const line of lines) { ... }: stops at a return or a throw
OpenAILines(lines) ==
    LET Body(st, i) == Join(st, OpenAILine(lines[i]))
    IN For(Body, LoopStart, 1, Len(lines))

\* a variant that drops the unfinished last line
OpenAIKeepNothing(lines) == <<>>

\* buffer = lines.pop() || '';
OpenAIKeep(lines) == Last(lines)

\* const lines = buffer.split('\n'); buffer = lines.pop() || ''; for (...)
OpenAISplit(lines) == Fed(OpenAIKeep(lines), OpenAILines(Front(lines)))

\* one iteration of while (true) after reader.read() gave a chunk
OpenAIFeed(buf, text) == OpenAISplit(SplitLines(buf \o text))

(***************************************************************************)
(* Anthropic.summarize, the read loop (event-stream format B).             *)
(***************************************************************************)
\* a variant that looks at the event's type only, not at the delta's
AnthropicIsContentDelta(event) ==
    GetProp(event, W_type) = JStr(W_content_block_delta)

\* event.type === 'content_block_delta' && event.delta?.type === 'text_delta'
AnthropicIsTextDelta(event) ==
    /\ GetProp(event, W_type) = JStr(W_content_block_delta)
    /\ OptProp(GetProp(event, W_delta), W_type) = JStr(W_text_delta)

\* yield event.delta.text;
AnthropicEmit(event) == Yield(GetProp(GetProp(event, W_delta), W_text))

\* catch (e) { console.warn(e); }
AnthropicCatch == Nothing

\* try { const event = JSON.parse(dataStr); if (...) yield ...; } catch:
\* a SyntaxError goes to the catch, and so does the TypeError of null.type
AnthropicTry(parsed) ==
    IF ~parsed.ok THEN AnthropicCatch
    ELSE IF IsNullish(parsed.val) THEN AnthropicCatch
    ELSE IF AnthropicIsTextDelta(parsed.val) THEN AnthropicEmit(parsed.val)
    ELSE Nothing

\* the try block of a 'data: ' line
AnthropicData(dataStr) == AnthropicTry(JSONParse(dataStr))

\* if (dataStr === '[DONE]') return;
AnthropicIsDone(dataStr) == dataStr = W_DONE

\* the body of `for (const line of lines)`
AnthropicLine(line) ==
    IF Trim(line) = <<>> THEN Nothing
    ELSE IF StartsWith(line, W_event) THEN Nothing
    ELSE IF StartsWith(line, W_data)
         THEN IF AnthropicIsDone(Slice(line, 6)) THEN Return
              ELSE AnthropicData(Slice(line, 6))
    ELSE Nothing

\* for (const line of lines) { ... }: stops at a return or a throw
AnthropicLines(lines) ==
    LET Body(st, i) == Join(st, AnthropicLine(lines[i]))
    IN For(Body, LoopStart, 1, Len(lines))

\* a variant that drops the unfinished last line
AnthropicKeepNothing(lines) == <<>>

\* buffer = lines.pop() || '';
AnthropicKeep(lines) == Last(lines)

\* const lines = buffer.split('\n'); buffer = lines.pop() || ''; for (...)
AnthropicSplit(lines) == Fed(AnthropicKeep(lines), AnthropicLines(Front(lines)))

\* one iteration of while (true) after reader.read() gave a chunk
AnthropicFeed(buf, text) == AnthropicSplit(SplitLines(buf \o text))

(***************************************************************************)
(* Gemini.summarize, the read loop (bare JSON-array stream, format C).     *)
(* Indices are JavaScript's (0-based); end = -1 means no closing brace.    *)
(***************************************************************************)
\* if (char === '"' && buffer[i - 1] !== '\\') inString = !inString;
\* (buffer[-1] is undefined, which is not a backslash)
GeminiQuoteToggles(buf, i) == buf[i + 1] = QUOTE /\ (i = 0 \/ buf[i] # BSL)

\* for (let i = start; i < buffer.length; i++) { ... } from index i up to
\* index last: the loop's variables after it; end is the index of the brace
\* that brought braceCount back to 0 (the loop broke out there), or -1
RECURSIVE GeminiScan(_, _, _, _, _)
GeminiScan(buf, i, last, braceCount, inString) ==
    IF i > last
    THEN [braceCount |-> braceCount, inString |-> inString, end |-> -1, stop |-> FALSE]
    ELSE LET char == buf[i + 1]
             str == IF GeminiQuoteToggles(buf, i) THEN ~inString ELSE inString
         IN IF str THEN GeminiScan(buf, i + 1, last, braceCount, str)
            ELSE IF char = "{" THEN GeminiScan(buf, i + 1, last, braceCount + 1, str)
            ELSE IF char = "}"
                 THEN IF braceCount - 1 = 0
                      THEN [braceCount |-> 0, inString |-> str, end |-> i, stop |-> TRUE]
                      ELSE GeminiScan(buf, i + 1, last, braceCount - 1, str)
            ELSE GeminiScan(buf, i + 1, last, braceCount, str)

\* let braceCount = 0; let end = -1; let inString = false; for (...) {...}
\* The loop is evaluated 32 indices at a time.
GeminiEnd(buf, start) ==
    LET Piece(st, k) ==
            LET from == start + 32 * k
                to == IF from + 31 < Len(buf) - 1 THEN from + 31 ELSE Len(buf) - 1
            IN GeminiScan(buf, from, to, st.braceCount, st.inString)
    IN For(Piece, [braceCount |-> 0, inString |-> FALSE, end |-> -1, stop |-> FALSE],
           0, (Len(buf) - 1 - start) \div 32).end

\* json.candidates?.[0]?.content?.parts?.[0]?.text
GeminiPath(json) ==
    IF IsNullish(json) THEN TypeError
    ELSE Got(OptProp(OptIndex0(OptProp(OptProp(OptIndex0(
                 GetProp(json, W_candidates)), W_content), W_parts)), W_text))

\* catch (e) { console.warn("Gemini JSON parse error", e); }
GeminiCatch == Nothing

\* if (text) { yield text; }
GeminiEmit(text) == IF Truthy(text) THEN Yield(text) ELSE Nothing

\* const text = ...; if (text) { yield text; }  a TypeError in the property
\* path goes to the catch
GeminiText(text) == IF text.threw THEN GeminiCatch ELSE GeminiEmit(text.val)

\* try { const json = JSON.parse(jsonStr); ... } catch: a SyntaxError goes to
\* the catch
GeminiTry(parsed) ==
    IF ~parsed.ok THEN GeminiCatch ELSE GeminiText(GeminiPath(parsed.val))

\* the try block for one balanced span
GeminiObject(jsonStr) == GeminiTry(JSONParse(jsonStr))

\* the inner loop ends (break, or its condition fails) with the cursor here
GeminiBreak(cursor, frags) == [cursor |-> cursor, frags |-> frags, abort |-> FALSE]

\* while (cursor < buffer.length) { ... }: the cursor reached and what was
\* yielded on the way.  One iteration is GeminiObjects (the loop condition
\* and indexOf), GeminiFrom (start is known; the brace scan), GeminiSpan (end
\* is known; the try block) and GeminiNext (the object gave r).
RECURSIVE GeminiObjects(_, _, _)
RECURSIVE GeminiFrom(_, _, _, _)
RECURSIVE GeminiSpan(_, _, _, _, _)
RECURSIVE GeminiNext(_, _, _, _)

GeminiObjects(buf, cursor, frags) ==
    IF cursor >= Len(buf) THEN GeminiBreak(cursor, frags)
    ELSE GeminiFrom(buf, cursor, frags, IndexOf(buf, "{", cursor))

GeminiFrom(buf, cursor, frags, start) ==
    IF start = -1 THEN GeminiBreak(cursor, frags)
    ELSE GeminiSpan(buf, cursor, frags, start, GeminiEnd(buf, start))

GeminiSpan(buf, cursor, frags, start, end) ==
    IF end = -1 THEN GeminiBreak(cursor, frags)
    ELSE GeminiNext(buf, frags, end, GeminiObject(Substring(buf, start, end + 1)))

GeminiNext(buf, frags, end, r) ==
    IF r.abort
    THEN [cursor |-> end + 1, frags |-> frags \o r.frags, abort |-> TRUE]
    ELSE GeminiObjects(buf, end + 1, frags \o r.frags)

\* a variant that drops an object the chunk boundary cut
GeminiKeepDropsPartial(buf, cursor) ==
    IF cursor > 0 THEN SubstringFrom(buf, cursor) ELSE <<>>

\* if (cursor > 0) { buffer = buffer.substring(cursor); }
GeminiKeep(buf, cursor) == IF cursor > 0 THEN SubstringFrom(buf, cursor) ELSE buf

\* the buffer and the fragments after the inner loop ended with r
GeminiRest(all, r) ==
    [buffer |-> GeminiKeep(all, r.cursor), frags |-> r.frags,
     returned |-> FALSE, abort |-> r.abort]

\* let cursor = 0; while (cursor < buffer.length) { ... }; if (cursor > 0) ...
GeminiAll(all) == GeminiRest(all, GeminiObjects(all, 0, <<>>))

\* one iteration of while (true) after reader.read() gave a chunk
GeminiFeed(buf, text) == GeminiAll(buf \o text)

(***************************************************************************)
(* One iteration of the read loop of the selected provider.                *)
(***************************************************************************)
Providers == {"openai", "anthropic", "gemini"}

Feed(p, buf, text) ==
    CASE p = "openai" -> OpenAIFeed(buf, text)
      [] p = "anthropic" -> AnthropicFeed(buf, text)
      [] p = "gemini" -> GeminiFeed(buf, text)

(***************************************************************************)
(* The inputs: what a server sends.  A response is a sequence of logical   *)
(* units; Wire renders it in the provider's wire format, the way the       *)
(* provider's API does (spec section 6), and encodes it as UTF-8 bytes.    *)
(*   text     a text delta carrying `text` (possibly empty)                *)
(*   notext   a text-delta event with no text member (format B)            *)
(*   other    an event of another type (format B: ping)                    *)
(*   otherdelta  a content_block_delta whose delta is not a text delta      *)
(*            (format B: input_json_delta)                                 *)
(*   nopath   valid JSON without the expected path                         *)
(*   bad      a unit that is not valid JSON                                *)
(*   done     the [DONE] sentinel line (formats A and B)                   *)
(* open = TRUE: the body ends right after the last line's characters, with *)
(* no line terminator (formats A and B).                                   *)
(***************************************************************************)
T_Hello == <<"H", "e", "l", "l", "o">>
T_Hi == <<"H", "i">>
T_Braces == <<"a", " ", "{", " ", "b", " ", "}", " ", "c">>
T_Quote == <<"a", QUOTE, "b">>
T_Backslash == <<"a", BSL>>
T_Accent == <<EAcute>>
T_Empty == <<>>

Unit(k, t) == [k |-> k, text |-> t]
TextUnit(t) == Unit("text", t)
Done == Unit("done", <<>>)
Bad == Unit("bad", <<>>)
NoPath == Unit("nopath", <<>>)
NoText == Unit("notext", <<>>)
Other == Unit("other", <<>>)
OtherDelta == Unit("otherdelta", <<>>)

UnitsOf(p) ==
    CASE p = "openai" ->
            {TextUnit(T_Hello), TextUnit(T_Accent), TextUnit(T_Empty), Bad, NoPath, Done}
      [] p = "anthropic" ->
            {TextUnit(T_Hi), TextUnit(T_Empty), NoText, Other, OtherDelta, Bad, Done}
      [] p = "gemini" ->
            {TextUnit(T_Braces), TextUnit(T_Quote), TextUnit(T_Backslash),
             TextUnit(T_Empty), Bad, NoPath}

\* the sequences of 1..n elements of S
SeqsUpTo(S, n) == UNION {[1..k -> S] : k \in 1..n}

Responses(p) ==
    {[units |-> u, open |-> o] :
        u \in SeqsUpTo(UnitsOf(p), MaxUnits),
        o \in IF p = "gemini" THEN {FALSE} ELSE BOOLEAN}

\* JSON.stringify of a string, on the server
RECURSIVE EscapeFrom(_, _, _)
EscapeFrom(t, i, acc) ==
    IF i > Len(t) THEN acc
    ELSE IF t[i] \in {QUOTE, BSL} THEN EscapeFrom(t, i + 1, acc \o <<BSL, t[i]>>)
    ELSE IF t[i] = LF THEN EscapeFrom(t, i + 1, acc \o <<BSL, "n">>)
    ELSE EscapeFrom(t, i + 1, Append(acc, t[i]))

JSONString(t) == <<QUOTE>> \o EscapeFrom(t, 1, <<>>) \o <<QUOTE>>

\* UTF-8 encoding of the characters
Utf8(t) ==
    LET Step(st, i) ==
            [acc |-> IF t[i] = EAcute THEN st.acc \o <<LeadByte, ContByte>>
                     ELSE Append(st.acc, t[i]),
             stop |-> FALSE]
    IN For(Step, [acc |-> <<>>, stop |-> FALSE], 1, Len(t)).acc

A_Open ==
    <<"d", "a", "t", "a", ":", " ", "{", QUOTE, "c", "h", "o", "i", "c",
      "e", "s", QUOTE, ":", "[", "{", QUOTE, "d", "e", "l", "t", "a",
      QUOTE, ":", "{", QUOTE, "c", "o", "n", "t", "e", "n", "t", QUOTE,
      ":">>
A_Close ==
    <<"}", "}", "]", "}">>
B_EventDelta ==
    <<"e", "v", "e", "n", "t", ":", " ", "c", "o", "n", "t", "e", "n", "t",
      "_", "b", "l", "o", "c", "k", "_", "d", "e", "l", "t", "a", LF>>
B_Open ==
    <<"d", "a", "t", "a", ":", " ", "{", QUOTE, "t", "y", "p", "e", QUOTE,
      ":", QUOTE, "c", "o", "n", "t", "e", "n", "t", "_", "b", "l", "o",
      "c", "k", "_", "d", "e", "l", "t", "a", QUOTE, ",", QUOTE, "d", "e",
      "l", "t", "a", QUOTE, ":", "{", QUOTE, "t", "y", "p", "e", QUOTE,
      ":", QUOTE, "t", "e", "x", "t", "_", "d", "e", "l", "t", "a", QUOTE,
      ",", QUOTE, "t", "e", "x", "t", QUOTE, ":">>
B_Close ==
    <<"}", "}">>
B_NoText ==
    <<"d", "a", "t", "a", ":", " ", "{", QUOTE, "t", "y", "p", "e", QUOTE,
      ":", QUOTE, "c", "o", "n", "t", "e", "n", "t", "_", "b", "l", "o",
      "c", "k", "_", "d", "e", "l", "t", "a", QUOTE, ",", QUOTE, "d", "e",
      "l", "t", "a", QUOTE, ":", "{", QUOTE, "t", "y", "p", "e", QUOTE,
      ":", QUOTE, "t", "e", "x", "t", "_", "d", "e", "l", "t", "a", QUOTE,
      "}", "}">>
B_Ping ==
    <<"e", "v", "e", "n", "t", ":", " ", "p", "i", "n", "g", LF, "d", "a",
      "t", "a", ":", " ", "{", QUOTE, "t", "y", "p", "e", QUOTE, ":",
      QUOTE, "p", "i", "n", "g", QUOTE, "}">>
B_OtherDelta ==
    <<"d", "a", "t", "a", ":", " ", "{", QUOTE, "t", "y", "p", "e", QUOTE,
      ":", QUOTE, "c", "o", "n", "t", "e", "n", "t", "_", "b", "l", "o",
      "c", "k", "_", "d", "e", "l", "t", "a", QUOTE, ",", QUOTE, "d", "e",
      "l", "t", "a", QUOTE, ":", "{", QUOTE, "t", "y", "p", "e", QUOTE,
      ":", QUOTE, "i", "n", "p", "u", "t", "_", "j", "s", "o", "n", "_",
      "d", "e", "l", "t", "a", QUOTE, ",", QUOTE, "p", "a", "r", "t", "i",
      "a", "l", "_", "j", "s", "o", "n", QUOTE, ":", QUOTE, "{", QUOTE,
      "}", "}">>
C_Open ==
    <<"{", QUOTE, "c", "a", "n", "d", "i", "d", "a", "t", "e", "s", QUOTE,
      ":", "[", "{", QUOTE, "c", "o", "n", "t", "e", "n", "t", QUOTE, ":",
      "{", QUOTE, "p", "a", "r", "t", "s", QUOTE, ":", "[", "{", QUOTE,
      "t", "e", "x", "t", QUOTE, ":">>
C_Close ==
    <<"}", "]", "}", "}", "]", "}">>
J_Bad ==
    <<"{", "x", "}">>
J_NoPath ==
    <<"{", QUOTE, "e", "r", "r", "o", "r", QUOTE, ":", "{", "}", "}">>

\* the characters of one unit, without what separates it from the next
UnitChars(p, u) ==
    CASE p = "openai" ->
            (CASE u.k = "text" -> A_Open \o JSONString(u.text) \o A_Close
               [] u.k = "bad" -> W_data \o J_Bad
               [] u.k = "nopath" -> W_data \o J_NoPath
               [] u.k = "done" -> W_dataDONE)
      [] p = "anthropic" ->
            (CASE u.k = "text" -> B_EventDelta \o B_Open \o JSONString(u.text) \o B_Close
               [] u.k = "notext" -> B_EventDelta \o B_NoText
               [] u.k = "other" -> B_Ping
               [] u.k = "otherdelta" -> B_EventDelta \o B_OtherDelta
               [] u.k = "bad" -> W_data \o J_Bad
               [] u.k = "done" -> W_dataDONE)
      [] p = "gemini" ->
            (CASE u.k = "text" -> C_Open \o JSONString(u.text) \o C_Close
               [] u.k = "bad" -> J_Bad
               [] u.k = "nopath" -> J_NoPath)

\* formats A and B: every event is followed by a blank line; format C: a
\* top-level array, the objects separated by a comma and a line break
RECURSIVE EventStream(_, _, _)
EventStream(p, r, i) ==
    IF i > Len(r.units) THEN <<>>
    ELSE UnitChars(p, r.units[i])
         \o (IF i = Len(r.units) /\ r.open THEN <<>> ELSE <<LF, LF>>)
         \o EventStream(p, r, i + 1)

RECURSIVE ArrayStream(_, _, _)
ArrayStream(p, r, i) ==
    IF i > Len(r.units) THEN <<"]">>
    ELSE (IF i = 1 THEN <<"[">> ELSE <<",", LF>>)
         \o UnitChars(p, r.units[i]) \o ArrayStream(p, r, i + 1)

Wire(p, r) ==
    Utf8(IF p = "gemini" THEN ArrayStream(p, r, 1) ELSE EventStream(p, r, 1))

\* a valid payload: every unit is one the API documents
IsValid(r) == \A i \in 1..Len(r.units) : r.units[i].k \notin {"bad", "nopath", "notext"}

(***************************************************************************)
(* summarize as a state machine: the reader delivers the body in chunks of *)
(* any size (ReadChunk), then reports done (EndOfStream).                  *)
(***************************************************************************)
Outcome(r) == IF r.abort THEN "error" ELSE IF r.returned THEN "returned" ELSE "reading"

\* the stream after an iteration that gave r and, unless it returned or threw,
\* a read that reported done
Ended(r) ==
    [out |-> r.frags, buffer |-> r.buffer,
     status |-> IF Outcome(r) = "reading" THEN "done" ELSE Outcome(r)]

\* the whole body in one chunk, then done
OneChunk(p, bytes) == Ended(Feed(p, <<>>, TextDecode(<<>>, bytes).text))

\* a value for what a state machine does not use
NotUsed == "not used"

\* no summarize run: the variables of SpecRun stay as they are here
\* fetch has not resolved with a Response
NoResponse == [ok |-> FALSE, body |-> FALSE, status |-> "none", text |-> ""]

NoStreamRun ==
    /\ res = NoResponse
    /\ ai = NotUsed
    /\ caller = NotUsed
    /\ hs = NotUsed
    /\ uiStatus = NotUsed
    /\ summary = <<>>
    /\ gen = NotUsed
    /\ todo = <<>>
    /\ after = NotUsed
    /\ errVal = <<>>
    /\ errors = 0
    /\ completions = 0
    /\ reader = NotUsed
    /\ session = NotUsed
    /\ destroys = 0
    /\ runs = 0
    /\ currentKey = NotUsed
    /\ contentArg = Undefined
    /\ requests = 0

NoRun ==
    /\ NoStreamRun
    /\ errorMsg = <<>>
    /\ view = NotUsed

\* constructPrompt plays no part
NoPrompt ==
    /\ customPrompt = <<>>
    /\ language = <<>>
    /\ systemInstruction = <<>>
    /\ prompt = <<>>

\* what a gateway call has returned: nothing yet, a boolean, or a list
NoResult == [returned |-> FALSE, valid |-> FALSE, list |-> <<>>]

\* the panel is not open and the on-device service is not asked
NoPanel ==
    /\ globals = NotUsed
    /\ availability = NotUsed
    /\ chromeAIStatus = NotUsed
    /\ probe = NotUsed
    /\ stored = NotUsed
    /\ opened = NotUsed
    /\ value = NotUsed
    /\ channel = NotUsed
    /\ panelActs = 0

\* no gateway method is called
NoGateway ==
    /\ NoPanel
    /\ method = NotUsed
    /\ apiKey = <<>>
    /\ server = NotUsed
    /\ stage = NotUsed
    /\ listRequests = 0
    /\ result = NoResult

\* no function applied yet
NoPick ==
    /\ NoPrompt
    /\ NoGateway
    /\ models = <<>>
    /\ bestModel = <<>>
    /\ currentModels = <<>>
    /\ applied = {}

\* the settings of the App play no part
NoSettings ==
    /\ apiKeys = NotUsed
    /\ timeouts = NotUsed
    /\ timerRef = NotUsed
    /\ now = 0
    /\ inflight = EmptyBag
    /\ isFetchingModels = FALSE
    /\ selectedModel = NotUsed
    /\ verifyingProvider = NotUsed
    /\ verifiedProvider = NotUsed
    /\ backTimers = {}
    /\ burst = NotUsed
    /\ lastDone = NotUsed
    /\ acts = 0
    /\ order = NotUsed

NoCatalog ==
    /\ NoSettings
    /\ cachedModels = NotUsed
    /\ selectedProvider = NotUsed

\* no response is being decoded
NoDecode ==
    /\ desc = [units |-> <<>>, open |-> FALSE]
    /\ wire = <<>>
    /\ pos = 0
    /\ pending = <<>>
    /\ buffer = <<>>
    /\ out = <<>>
    /\ status = NotUsed
    /\ chunked = FALSE
    /\ whole = NotUsed

InitDecode ==
    /\ NoRun
    /\ NoCatalog
    /\ NoPick
    /\ provider \in Providers
    /\ desc \in Responses(provider)
    /\ wire = Wire(provider, desc)
    /\ pos = 0
    /\ pending = <<>>
    /\ buffer = <<>>
    /\ out = <<>>
    /\ status = "reading"
    /\ chunked = FALSE
    /\ whole = OneChunk(provider, wire)

\* the sizes the next chunk may have: 1..MaxChunk bytes, or the whole body
ChunkSizes == {n \in 1..(Len(wire) - pos) : n <= MaxChunk \/ n = Len(wire)}

\* const { done, value } = await reader.read(); with done = false
ReadChunk ==
    /\ status = "reading"
    /\ \E n \in ChunkSizes :
       \E d \in {TextDecode(pending, SubSeq(wire, pos + 1, pos + n))} :
       \E r \in {Feed(provider, buffer, d.text)} :
          /\ pos' = pos + n
          /\ pending' = d.pending
          /\ buffer' = r.buffer
          /\ out' = out \o r.frags
          /\ status' = Outcome(r)
          /\ chunked' = (chunked \/ n < Len(wire))
    /\ UNCHANGED <<provider, desc, wire, whole>>
    /\ UNCHANGED <<runVars, catalogVars, pickVars>>

\* if (done) break;
EndOfStream ==
    /\ status = "reading"
    /\ pos = Len(wire)
    /\ status' = "done"
    /\ UNCHANGED <<provider, desc, wire, pos, pending, buffer, out, chunked, whole>>
    /\ UNCHANGED <<runVars, catalogVars, pickVars>>

NextDecode == ReadChunk \/ EndOfStream

Spec == InitDecode /\ [][NextDecode]_vars

(***************************************************************************)
(* What the wire formats say a response carries, read off the logical      *)
(* units and not off the decoders: the non-empty texts of the text units,  *)
(* in order, up to the first [DONE].                                       *)
(***************************************************************************)
LineProviders == {"openai", "anthropic"}
Finished == status \in {"done", "returned"}

IsPrefix(a, b) == Len(a) <= Len(b) /\ SubSeq(b, 1, Len(a)) = a

DonePositions(r) == {i \in 1..Len(r.units) : r.units[i].k = "done"}
HasDone(r) == DonePositions(r) # {}
FirstDone(r) ==
    IF HasDone(r) THEN CHOOSE i \in DonePositions(r) : \A j \in DonePositions(r) : i <= j
    ELSE Len(r.units) + 1

RECURSIVE TextsFrom(_, _, _)
TextsFrom(units, i, last) ==
    IF i > last THEN <<>>
    ELSE (IF units[i].k = "text" /\ units[i].text # <<>>
          THEN <<JStr(units[i].text)>> ELSE <<>>)
         \o TextsFrom(units, i + 1, last)

ExpectedTexts(r) == TextsFrom(r.units, 1, FirstDone(r) - 1)

\* every line of the body ends with a line terminator, or the body has its
\* [DONE] line
Terminated(r) == HasDone(r) \/ ~r.open

HasBrace(t) == \E i \in 1..Len(t) : t[i] \in {"{", "}"}

(***************************************************************************)
(* C1  OpenAI.summarize, chunk independence.  However the body is cut into *)
(* chunks, the fragments yielded so far are a prefix of what the body      *)
(* yields as one chunk, and once the stream has ended they are exactly     *)
(* those (so is their concatenation), with the same way of ending.         *)
(***************************************************************************)
C1_OpenAIChunkIndependent ==
    provider = "openai" =>
        /\ IsPrefix(out, whole.out)
        /\ Finished => (out = whole.out /\ status = whole.status)

\* a body with two deltas and cuts inside its lines, decoded to the end
C1_Witness ==
    /\ provider = "openai"
    /\ chunked
    /\ status = "returned"
    /\ out = <<JStr(T_Accent)>>
    /\ desc.units = <<TextUnit(T_Accent), Done>>

(***************************************************************************)
(* C2  Gemini.summarize, chunk independence.  However the array is cut,    *)
(* the fragments yielded so far are a prefix of what the body yields as    *)
(* one chunk; at the end they are exactly those and the same characters    *)
(* are left in the buffer: an object cut by a chunk boundary is kept and   *)
(* rescanned, neither emitted in part nor dropped.                         *)
(***************************************************************************)
C2_GeminiChunkIndependent ==
    provider = "gemini" =>
        /\ IsPrefix(out, whole.out)
        /\ Finished => (out = whole.out /\ buffer = whole.buffer)

\* two objects, one with an escaped quote, cut everywhere, both decoded
C2_Witness ==
    /\ provider = "gemini"
    /\ chunked
    /\ status = "done"
    /\ out = <<JStr(T_Quote), JStr(T_Braces)>>

(***************************************************************************)
(* C3  Anthropic.summarize, chunk independence.  However the body is cut   *)
(* (inside an 'event: ' line, inside a 'data: ' line, between lines), the  *)
(* values yielded so far are a prefix of what the body yields as one       *)
(* chunk, and at the end they are exactly those, with the same way of      *)
(* ending.                                                                 *)
(***************************************************************************)
C3_AnthropicChunkIndependent ==
    provider = "anthropic" =>
        /\ IsPrefix(out, whole.out)
        /\ Finished => (out = whole.out /\ status = whole.status)

\* a ping event and a text delta, cut everywhere, decoded to the end
C3_Witness ==
    /\ provider = "anthropic"
    /\ chunked
    /\ status = "done"
    /\ desc.units = <<Other, TextUnit(T_Hi)>>
    /\ out = <<JStr(T_Hi)>>

(***************************************************************************)
(* C4  Gemini brace scan and escapes.  For a valid array whose texts       *)
(* contain an escaped quote or end in an escaped backslash, every object   *)
(* is found as one balanced span and its text is yielded: at the end the   *)
(* fragments are the texts, in order, and only the closing bracket is      *)
(* left in the buffer.                                                     *)
(***************************************************************************)
C4_EscapesKeepObjectsApart ==
    (/\ provider = "gemini"
     /\ status = "done"
     /\ \A i \in 1..Len(desc.units) :
            desc.units[i] \in {TextUnit(T_Quote), TextUnit(T_Backslash)})
    => (out = ExpectedTexts(desc) /\ buffer = <<"]">>)

(***************************************************************************)
(* C5  Gemini brace scan and braces in strings.  For a valid array in      *)
(* which some text contains '{' or '}', every object is still selected as  *)
(* a whole and the fragments are the texts, unchanged and in order.        *)
(***************************************************************************)
C5_BracesInStringsIgnored ==
    (/\ provider = "gemini"
     /\ status = "done"
     /\ IsValid(desc)
     /\ \E i \in 1..Len(desc.units) : HasBrace(desc.units[i].text))
    => out = ExpectedTexts(desc)

(***************************************************************************)
(* C6  [DONE] ends an event stream.  When the body holds a complete        *)
(* 'data: [DONE]' line, the stream of either event-stream decoder ends by  *)
(* returning, and what it yields is what the body cut off right after that *)
(* line yields: nothing that follows the line, in the same chunk or in a   *)
(* later one, adds a fragment.  A 'Hello' delta followed by [DONE] yields  *)
(* exactly one fragment, 'Hello'.                                          *)
(***************************************************************************)
DoneRead(r) == HasDone(r) /\ (FirstDone(r) < Len(r.units) \/ ~r.open)
UpToDone(r) == [units |-> SubSeq(r.units, 1, FirstDone(r)), open |-> FALSE]

C6_NothingAfterDone ==
    /\ (provider \in LineProviders /\ DoneRead(desc)) =>
          LET cut == OneChunk(provider, Wire(provider, UpToDone(desc))) IN
          /\ IsPrefix(out, cut.out)
          /\ Finished => (status = "returned" /\ out = cut.out)
    /\ (/\ provider = "openai"
        /\ desc = [units |-> <<TextUnit(T_Hello), Done>>, open |-> FALSE]
        /\ Finished)
       => out = <<JStr(T_Hello)>>

\* [DONE] was read, a 'Hello' delta follows it on the wire, nothing was yielded
C6_Witness ==
    /\ provider = "openai"
    /\ status = "returned"
    /\ desc.units = <<Done, TextUnit(T_Hello)>>
    /\ out = <<>>

(***************************************************************************)
(* C7  End of stream flushes the buffer.  When the body ends with a        *)
(* 'data: <json>' line that has no line terminator, the event-stream       *)
(* decoders still yield that line's text before the stream completes.      *)
(***************************************************************************)
C7_FinalLineFlushed ==
    (/\ provider \in LineProviders
     /\ status = "done"
     /\ desc.open
     /\ ~HasDone(desc)
     /\ Last(desc.units).k = "text"
     /\ Last(desc.units).text # <<>>)
    => (out # <<>> /\ Last(out) = JStr(Last(desc.units).text))

(***************************************************************************)
(* C8  Fragments are non-empty texts.  Every value yielded by a summarize  *)
(* stream is a string of at least one character.                           *)
(***************************************************************************)
C8_FragmentsNonEmpty ==
    \A i \in 1..Len(out) : out[i].t = "str" /\ out[i].s # <<>>

(***************************************************************************)
(* C9  Parse failures are isolated.  A unit that is not valid JSON or      *)
(* lacks the expected path yields nothing and raises no error, and the     *)
(* other units yield what they yield without it: the stream never ends in  *)
(* an error, and the values yielded are those of the same body with the    *)
(* failing units left out.                                                 *)
(***************************************************************************)
Failing(u) == u.k \in {"bad", "nopath", "notext"}
HasFailing(r) == \E i \in 1..Len(r.units) : Failing(r.units[i])
WithoutFailing(r) ==
    [units |-> SelectSeq(r.units, LAMBDA u : ~Failing(u)),
     open |-> r.open /\ ~Failing(Last(r.units))]

C9_ParseFailuresIsolated ==
    /\ status # "error"
    /\ (Finished /\ HasFailing(desc)) =>
          out = OneChunk(provider, Wire(provider, WithoutFailing(desc))).out

(***************************************************************************)
(* C10  Format A result.  For a valid body whose lines are all terminated  *)
(* (or that has its [DONE] line), OpenAI.summarize yields exactly the      *)
(* non-empty choices[0].delta.content values of the data lines before      *)
(* [DONE], in wire order; blank lines and empty deltas yield nothing.      *)
(* While the stream runs, what was yielded is a prefix of that.            *)
(***************************************************************************)
C10_OpenAIResult ==
    (provider = "openai" /\ IsValid(desc)) =>
        /\ IsPrefix(out, ExpectedTexts(desc))
        /\ (Finished /\ Terminated(desc)) => out = ExpectedTexts(desc)

\* two deltas with different texts, both yielded, in wire order
C10_Witness ==
    /\ provider = "openai"
    /\ chunked
    /\ status = "done"
    /\ desc.units = <<TextUnit(T_Hello), TextUnit(T_Accent)>>
    /\ out = <<JStr(T_Hello), JStr(T_Accent)>>

(***************************************************************************)
(* C11  Format-B filter.  Anthropic.summarize yields for a data line       *)
(* exactly when the parsed object's type is 'content_block_delta' and its  *)
(* delta's type is 'text_delta', and what it yields is delta.text (the     *)
(* text as sent; undefined when the delta has no text member).  'event: '  *)
(* lines, blank lines, pings and deltas of another type yield nothing and  *)
(* do not end the stream: the values yielded are the delta.text of the     *)
(* text deltas on the lines read, in order, nothing throws, and the        *)
(* stream returns early only on a [DONE] line.  A line is read once its    *)
(* line terminator has arrived.                                            *)
(***************************************************************************)
RECURSIVE DeltaTextsFrom(_, _, _)
DeltaTextsFrom(units, i, last) ==
    IF i > last THEN <<>>
    ELSE (CASE units[i].k = "text" -> <<JStr(units[i].text)>>
            [] units[i].k = "notext" -> <<Undefined>>
            [] OTHER -> <<>>)
         \o DeltaTextsFrom(units, i + 1, last)

DeltaTexts(r) == DeltaTextsFrom(r.units, 1, FirstDone(r) - 1)

C11_AnthropicFilter ==
    provider = "anthropic" =>
        /\ IsPrefix(out, DeltaTexts(desc))
        /\ (Finished /\ Terminated(desc)) => out = DeltaTexts(desc)
        /\ status # "error"
        /\ status = "returned" => HasDone(desc)

\* a delta of another type, then a text delta: only the second is yielded
C11_Witness ==
    /\ provider = "anthropic"
    /\ chunked
    /\ status = "done"
    /\ desc.units = <<OtherDelta, TextUnit(T_Hi)>>
    /\ out = <<JStr(T_Hi)>>

(***************************************************************************)
(* A summarize run: App.handleSummarize (or any other consumer) drives the *)
(* async generator summarize of the selected service.  The generator runs  *)
(* only between a next() of its consumer and its next yield, return or     *)
(* throw.  The read loops of the three network services are the ones       *)
(* above: an iteration feeds the decoded chunk to Feed, then yields the    *)
(* values one at a time (todo), then reads again or returns (after).       *)
(*                                                                         *)
(* A message (Error.message, errorMsg) is the sequence of the pieces it is *)
(* put together from; the empty message is <<>>.                           *)
(***************************************************************************)
Services == Providers \cup {"chrome"}

\* the service named at the head of its API error message
ServiceName(p) ==
    CASE p = "openai" -> "OpenAI"
      [] p = "anthropic" -> "Anthropic"
      [] p = "gemini" -> "Gemini"

\* a variant that leaves the response out of the message
ApiErrorBare(p, st, errorText) == <<ServiceName(p), " API Error">>

\* `OpenAI API Error: ${res.status} ${errorText}`, and the same for Anthropic
\* and Gemini
ApiError(p, st, errorText) == <<ServiceName(p), " API Error: ", st, " ", errorText>>

NoResponseBody == <<"No response body">>
NotAvailable == <<"Chrome Built-in AI is not available in this browser. Please enable flags.">>
NotReady == <<"Chrome AI is available but model is not ready.">>
NoActiveTab == <<"No active tab">>
NotActiveOnPage == <<"Extension not active on this page. Please REFRESH the page and try again.">>
FailedToExtract == <<"Failed to extract content (refresh page?)">>
UnknownError == <<"Unknown error">>

\* `Chrome AI failed: ${e.message}`
ChromeFailed(message) == <<"Chrome AI failed: ">> \o message

\* what the environment may answer
HttpFailures ==
    {[ok |-> FALSE, body |-> TRUE, status |-> st, text |-> t] :
        st \in {"401", "500"}, t \in {"", "invalid api key"}}
HttpResponses ==
    HttpFailures \cup {[ok |-> TRUE, body |-> b, status |-> "200", text |-> ""] : b \in BOOLEAN}
Rejections == {<<"Failed to fetch">>, <<>>}

\* currentKey: a stored key (possibly empty), or 'CHROME_AI'
CurrentKeys(p) == IF p = "chrome" THEN {"CHROME_AI"} ELSE {"", "sk-key"}

\* a variant of the Summarize button that is never disabled
DisabledNever(st) == FALSE

\* disabled={status === 'loading' || status === 'streaming'}
Disabled(st) == st \in {"loading", "streaming"}

\* a variant of the test `!currentKey` that lets every key pass
NoKeyNever(key) == FALSE

\* !currentKey
NoKey(key) == key = ""

\* the position of the generator once a chunk is decoded: the loop over the
\* lines (objects) of the chunk, which yields
AfterReadSkipsLoop == "read"
AfterRead == "loop"

NotReaderable == <<"Not reader-able">>

\* what the panel shows when it opens, and what an earlier run may have
\* left before the stored key was removed
NothingShown == [status |-> "idle", summary |-> <<>>, errorMsg |-> <<>>]
EarlierOutcomes ==
    {NothingShown,
     [status |-> "idle", summary |-> T_Hi, errorMsg |-> <<>>],
     [status |-> "error", summary |-> <<>>, errorMsg |-> UnknownError]}

\* what the page is to the content script: not reader-able, or reader-able
\* with what Readability.parse() gives: null, an article without text, an
\* article with text
Pages == {[readerable |-> FALSE, article |-> "null"]}
            \cup {[readerable |-> TRUE, article |-> a] : a \in {"null", "no text", "text"}}

\* article?.textContent
TextContent(article) ==
    CASE article = "null" -> Undefined
      [] article = "no text" -> JStr(<<>>)
      [] article = "text" -> JStr(T_Hi)

\* the content script's answer to EXTRACT_CONTENT
ExtractResponse(page) ==
    IF page.readerable
    THEN [error |-> <<>>, content |-> TextContent(page.article)]
    ELSE [error |-> NotReaderable, content |-> Undefined]

\* the bodies a successful response may stream
RunUnits(p) ==
    CASE p = "openai" -> {TextUnit(T_Hello), Done}
      [] p = "anthropic" -> {TextUnit(T_Hi), NoText, Done}
      [] p = "gemini" -> {TextUnit(T_Braces)}
RunResponses(p) ==
    {[units |-> u, open |-> FALSE] : u \in SeqsUpTo(RunUnits(p), MaxUnits)}

\* the reader delivers what is left of the body, or half of it
RunChunkSizes == {n \in 1..(Len(wire) - pos) :
                     n = Len(wire) - pos \/ n = (Len(wire) - pos + 1) \div 2}

\* prev + chunk: the chunk converted to a string
W_undefined == <<"u", "n", "d", "e", "f", "i", "n", "e", "d">>
W_null == <<"n", "u", "l", "l">>
W_object == <<"[", "o", "b", "j", "e", "c", "t", " ", "O", "b", "j", "e", "c", "t", "]">>
RECURSIVE ToStr(_)
ToStr(v) ==
    CASE v.t \in {"str", "num", "bool"} -> v.s
      [] v.t = "undefined" -> W_undefined
      [] v.t = "null" -> W_null
      [] v.t = "obj" -> W_object
      [] v.t = "arr" -> IF v.items = <<>> THEN <<>> ELSE ToStr(v.items[1])

\* a variant that shows the error's message as it is
MessageAsIs(message) == message

\* e.message || 'Unknown error'
MessageOrUnknown(message) == IF message = <<>> THEN UnknownError ELSE message

uiVars == <<uiStatus, summary, errorMsg, view>>
bodyVars == <<wire, pos, pending, buffer>>
ghostVars == <<status, chunked, whole, currentKey>>
resourceVars == <<reader, session, destroys>>
outcomeVars == <<errVal, errors, completions>>
envVars == <<res, ai>>

InitRun ==
    /\ provider \in Services
    /\ caller \in {"handleSummarize", "consumer"}
    /\ hs = "idle"
    /\ view = "main"
    /\ gen = "none"
    /\ todo = <<>>
    /\ after = "read"
    /\ errVal = <<>>
    /\ errors = 0
    /\ completions = 0
    /\ reader = "none"
    /\ session = "none"
    /\ destroys = 0
    /\ runs = 0
    /\ currentKey \in IF caller = "handleSummarize" THEN CurrentKeys(provider) ELSE {"sk-key"}
    /\ \E shown \in IF currentKey = "" THEN EarlierOutcomes ELSE {NothingShown} :
          /\ uiStatus = shown.status
          /\ summary = shown.summary
          /\ errorMsg = shown.errorMsg
    /\ contentArg = Undefined
    /\ requests = 0
    /\ NoCatalog
    /\ NoPick
    /\ res = NoResponse
    /\ ai = "unknown"
    /\ desc = [units |-> <<>>, open |-> FALSE]
    /\ wire = <<>>
    /\ pos = 0
    /\ pending = <<>>
    /\ buffer = <<>>
    /\ out = <<>>
    /\ status = NotUsed
    /\ chunked = FALSE
    /\ whole = NotUsed

\* how the generator leaves a step: at another position, by throwing, by
\* running to its end
GenAt(position) == gen' = position /\ UNCHANGED outcomeVars
GenThrows(message) ==
    /\ gen' = "thrown"
    /\ errVal' = message
    /\ errors' = errors + 1
    /\ UNCHANGED completions
GenCompletes ==
    /\ gen' = "completed"
    /\ completions' = completions + 1
    /\ UNCHANGED <<errVal, errors>>

\* no generator yet: the one of an earlier run is out of reach
NoStream ==
    /\ todo' = <<>>
    /\ after' = "read"
    /\ errVal' = <<>>
    /\ errors' = 0
    /\ completions' = 0
    /\ reader' = "none"
    /\ session' = "none"
    /\ destroys' = 0
    /\ res' = NoResponse
    /\ ai' = "unknown"
    /\ desc' = [units |-> <<>>, open |-> FALSE]
    /\ wire' = <<>>
    /\ pos' = 0
    /\ pending' = <<>>
    /\ buffer' = <<>>
    /\ out' = <<>>

\* service.summarize(...) and the first next() of for await
StartStream ==
    /\ gen' = "start"
    /\ hs' = "consume"
    /\ runs' = runs + 1
    /\ NoStream

\* a variant of the catch block that runs the steps of handleSummarize again
CaughtAndRetries(message) ==
    /\ uiStatus' = "loading"
    /\ errorMsg' = <<>>
    /\ hs' = "query"
    /\ UNCHANGED <<summary, view>>

\* catch (e) { setStatus('error'); setErrorMsg(e.message || 'Unknown error'); }
Caught(message) ==
    /\ uiStatus' = "error"
    /\ errorMsg' = MessageOrUnknown(message)
    /\ hs' = "ended"
    /\ UNCHANGED <<summary, view>>

\* handleSummarize up to the first await; the button is disabled while a
\* run is loading or streaming
HandleSummarize ==
    /\ caller = "handleSummarize"
    /\ ~Disabled(uiStatus)
    /\ runs < MaxRuns
    /\ IF NoKey(currentKey)
       THEN /\ view' = "settings"
            /\ UNCHANGED <<hs, uiStatus, summary, errorMsg>>
            /\ UNCHANGED <<desc, out, gen, todo, after, contentArg, requests>>
            /\ UNCHANGED <<bodyVars, resourceVars, outcomeVars, envVars>>
       ELSE /\ uiStatus' = "loading"
            /\ summary' = <<>>
            /\ errorMsg' = <<>>
            /\ hs' = "query"
            /\ gen' = "none"
            /\ contentArg' = Undefined
            /\ requests' = 0
            /\ NoStream
            /\ UNCHANGED view
    /\ UNCHANGED <<provider, caller, runs, ghostVars>>
    /\ UNCHANGED <<catalogVars, pickVars>>

\* const [tab] = await chrome.tabs.query(...); if (!tab?.id) throw ...
TabsQuery ==
    /\ hs = "query"
    /\ \/ hs' = "extract" /\ UNCHANGED uiVars
       \/ Caught(NoActiveTab)
       \/ \E m \in Rejections : Caught(m)
    /\ UNCHANGED <<provider, caller, desc, out, gen, todo, after, runs>>
    /\ UNCHANGED <<bodyVars, ghostVars, resourceVars, outcomeVars>>
    /\ UNCHANGED envVars
    /\ UNCHANGED <<contentArg, requests>>
    /\ UNCHANGED <<catalogVars, pickVars>>

\* the content script did not answer, answered with an error, or sendMessage
\* rejected: if (!response || response.error) throw new Error(...)
ExtractFails ==
    /\ hs = "extract"
    /\ \/ Caught(NotActiveOnPage)
       \/ Caught(FailedToExtract)
       \/ \E page \in Pages :
             /\ ExtractResponse(page).error # <<>>
             /\ Caught(ExtractResponse(page).error)
       \/ \E m \in Rejections : Caught(m)
    /\ UNCHANGED <<provider, caller, desc, out, gen, todo, after, runs>>
    /\ UNCHANGED <<bodyVars, ghostVars, resourceVars, outcomeVars>>
    /\ UNCHANGED envVars
    /\ UNCHANGED <<contentArg, requests>>
    /\ UNCHANGED <<catalogVars, pickVars>>

\* the content script answered without an error: setStatus('streaming');
\* service.summarize(response.content, ...); for await (const chunk of stream)
ExtractContent ==
    /\ hs = "extract"
    /\ \E page \in Pages :
          /\ ExtractResponse(page).error = <<>>
          /\ contentArg' = ExtractResponse(page).content
    /\ uiStatus' = "streaming"
    /\ StartStream
    /\ UNCHANGED <<provider, caller, summary, errorMsg, view, ghostVars, requests>>
    /\ UNCHANGED <<catalogVars, pickVars>>

\* another consumer of the generator starts iterating it
ConsumerStarts ==
    /\ caller = "consumer"
    /\ hs = "idle"
    /\ runs < MaxRuns
    /\ contentArg' = JStr(T_Hi)
    /\ StartStream
    /\ UNCHANGED <<provider, caller, uiVars, ghostVars, requests>>
    /\ UNCHANGED <<catalogVars, pickVars>>

\* summarize of a network service up to the read loop: fetch, !res.ok,
\* !res.body, res.body.getReader()
Fetch ==
    /\ gen = "start"
    /\ provider \in Providers
    /\ \/ /\ \E m \in Rejections : GenThrows(m)
          /\ UNCHANGED <<desc, bodyVars, reader, res>>
       \/ /\ \E response \in HttpResponses :
                /\ ~response.ok \/ ~response.body
                /\ res' = response
                /\ GenThrows(IF ~response.ok
                             THEN ApiError(provider, response.status, response.text)
                             ELSE NoResponseBody)
          /\ UNCHANGED <<desc, bodyVars, reader>>
       \/ /\ \E r \in RunResponses(provider) :
                /\ desc' = r
                /\ wire' = Wire(provider, r)
          /\ res' = [ok |-> TRUE, body |-> TRUE, status |-> "200", text |-> ""]
          /\ reader' = "locked"
          /\ GenAt("read")
          /\ UNCHANGED <<pos, pending, buffer>>
    /\ UNCHANGED <<provider, caller, hs, uiVars, out, todo, after, runs>>
    /\ requests' = requests + 1
    /\ UNCHANGED <<ghostVars, session, destroys, ai, contentArg>>
    /\ UNCHANGED <<catalogVars, pickVars>>

\* const { done, value } = await reader.read(): a chunk, and the decoding of
\* it (the iteration's yields are delivered one at a time by YieldNext)
Read ==
    /\ gen = "read"
    /\ \E n \in RunChunkSizes :
       \E d \in {TextDecode(pending, SubSeq(wire, pos + 1, pos + n))} :
       \E r \in {Feed(provider, buffer, d.text)} :
          /\ pos' = pos + n
          /\ pending' = d.pending
          /\ buffer' = r.buffer
          /\ todo' = r.frags
          /\ after' = IF r.returned THEN "return" ELSE "read"
    /\ GenAt(AfterRead)
    /\ UNCHANGED <<provider, caller, hs, uiVars, desc, wire, out, runs>>
    /\ UNCHANGED <<ghostVars, resourceVars>>
    /\ UNCHANGED envVars
    /\ UNCHANGED <<contentArg, requests>>
    /\ UNCHANGED <<catalogVars, pickVars>>

\* reader.read() gave done: break, and the generator ends
ReadDone ==
    /\ gen = "read"
    /\ pos = Len(wire)
    /\ GenCompletes
    /\ UNCHANGED <<provider, caller, hs, uiVars, desc, out, todo, after, runs>>
    /\ UNCHANGED <<bodyVars, ghostVars, resourceVars>>
    /\ UNCHANGED envVars
    /\ UNCHANGED <<contentArg, requests>>
    /\ UNCHANGED <<catalogVars, pickVars>>

\* reader.read() rejected (the connection broke): nothing in summarize
\* catches it
ReadFails ==
    /\ gen = "read"
    /\ \E m \in Rejections : GenThrows(m)
    /\ UNCHANGED <<provider, caller, hs, uiVars, desc, out, todo, after, runs>>
    /\ UNCHANGED <<bodyVars, ghostVars, resourceVars>>
    /\ UNCHANGED envVars
    /\ UNCHANGED <<contentArg, requests>>
    /\ UNCHANGED <<catalogVars, pickVars>>

\* yield content / yield event.delta.text / yield text
YieldNext ==
    /\ gen = "loop"
    /\ todo # <<>>
    /\ out' = Append(out, Head(todo))
    /\ todo' = Tail(todo)
    /\ GenAt("yielded")
    /\ UNCHANGED <<provider, caller, hs, uiVars, desc, after, runs>>
    /\ UNCHANGED <<bodyVars, ghostVars, resourceVars>>
    /\ UNCHANGED envVars
    /\ UNCHANGED <<contentArg, requests>>
    /\ UNCHANGED <<catalogVars, pickVars>>

\* the iteration is over: `return` on [DONE], or the next reader.read()
LoopEnds ==
    /\ gen = "loop"
    /\ todo = <<>>
    /\ IF after = "return" THEN GenCompletes ELSE GenAt("read")
    /\ UNCHANGED <<provider, caller, hs, uiVars, desc, out, todo, after, runs>>
    /\ UNCHANGED <<bodyVars, ghostVars, resourceVars>>
    /\ UNCHANGED envVars
    /\ UNCHANGED <<contentArg, requests>>
    /\ UNCHANGED <<catalogVars, pickVars>>

\* ChromeAIService.summarize: if (!ai?.languageModel) throw ...
ChromeProbe ==
    /\ gen = "start"
    /\ provider = "chrome"
    /\ \/ ai' = "missing" /\ GenThrows(NotAvailable)
       \/ ai' = "present" /\ GenAt("capabilities")
    /\ UNCHANGED res
    /\ UNCHANGED <<provider, caller, hs, uiVars, desc, out, todo, after, runs>>
    /\ UNCHANGED <<bodyVars, ghostVars, resourceVars>>
    /\ UNCHANGED <<contentArg, requests>>
    /\ UNCHANGED <<catalogVars, pickVars>>

\* const capabilities = await ai.languageModel.capabilities(); inside try:
\* what is thrown here is caught and thrown again as 'Chrome AI failed: ...'
ChromeCapabilities ==
    /\ gen = "capabilities"
    /\ \E available \in {"no", "readily", "after-download", "rejected"} :
          /\ ai' = available
          /\ CASE available = "no" -> GenThrows(ChromeFailed(NotReady))
               [] available = "rejected" -> \E m \in Rejections : GenThrows(ChromeFailed(m))
               [] OTHER -> GenAt("create")
    /\ UNCHANGED res
    /\ UNCHANGED <<provider, caller, hs, uiVars, desc, out, todo, after, runs>>
    /\ UNCHANGED <<bodyVars, ghostVars, resourceVars>>
    /\ UNCHANGED <<contentArg, requests>>
    /\ UNCHANGED <<catalogVars, pickVars>>

\* const session = await ai.languageModel.create({...})
ChromeCreate ==
    /\ gen = "create"
    /\ \/ /\ session' = "open"
          /\ GenAt("stream")
       \/ /\ \E m \in Rejections : GenThrows(ChromeFailed(m))
          /\ UNCHANGED session
    /\ UNCHANGED <<provider, caller, hs, uiVars, desc, out, todo, after, runs>>
    /\ requests' = requests + 1
    /\ UNCHANGED <<bodyVars, ghostVars, reader, destroys, contentArg>>
    /\ UNCHANGED envVars
    /\ UNCHANGED <<catalogVars, pickVars>>

\* for await (const chunk of stream) { yield chunk; }
ChromeToken ==
    /\ gen = "stream"
    /\ Len(out) < MaxTokens
    /\ out' = Append(out, JStr(T_Hi))
    /\ GenAt("yielded")
    /\ UNCHANGED <<provider, caller, hs, uiVars, desc, todo, after, runs>>
    /\ UNCHANGED <<bodyVars, ghostVars, resourceVars>>
    /\ UNCHANGED envVars
    /\ UNCHANGED <<contentArg, requests>>
    /\ UNCHANGED <<catalogVars, pickVars>>

\* the token stream ended: session.destroy(), and the generator ends
ChromeStreamEnds ==
    /\ gen = "stream"
    /\ session' = "destroyed"
    /\ destroys' = destroys + 1
    /\ GenCompletes
    /\ UNCHANGED <<provider, caller, hs, uiVars, desc, out, todo, after, runs>>
    /\ UNCHANGED <<bodyVars, ghostVars, reader>>
    /\ UNCHANGED envVars
    /\ UNCHANGED <<contentArg, requests>>
    /\ UNCHANGED <<catalogVars, pickVars>>

\* promptStreaming threw while iterating: catch (e) { throw new Error(...) }
ChromeStreamThrows ==
    /\ gen = "stream"
    /\ \E m \in Rejections : GenThrows(ChromeFailed(m))
    /\ UNCHANGED <<provider, caller, hs, uiVars, desc, out, todo, after, runs>>
    /\ UNCHANGED <<bodyVars, ghostVars, resourceVars>>
    /\ UNCHANGED envVars
    /\ UNCHANGED <<contentArg, requests>>
    /\ UNCHANGED <<catalogVars, pickVars>>

\* the consumer takes the value and calls next():
\* setSummary(prev => prev + chunk)
Receive ==
    /\ hs = "consume"
    /\ gen = "yielded"
    /\ summary' = summary \o ToStr(Last(out))
    /\ GenAt(IF provider = "chrome" THEN "stream" ELSE "loop")
    /\ UNCHANGED <<provider, caller, hs, uiStatus, errorMsg, view, desc, out, todo, after, runs>>
    /\ UNCHANGED <<bodyVars, ghostVars, resourceVars>>
    /\ UNCHANGED envVars
    /\ UNCHANGED <<contentArg, requests>>
    /\ UNCHANGED <<catalogVars, pickVars>>

\* the consumer stops iterating (break, return): the generator's return()
\* ends it at the yield; summarize has no finally block to run
Abandon ==
    /\ caller = "consumer"
    /\ hs = "consume"
    /\ gen = "yielded"
    /\ hs' = "ended"
    /\ GenAt("returned")
    /\ UNCHANGED <<provider, caller, uiVars, desc, out, todo, after, runs>>
    /\ UNCHANGED <<bodyVars, ghostVars, resourceVars>>
    /\ UNCHANGED envVars
    /\ UNCHANGED <<contentArg, requests>>
    /\ UNCHANGED <<catalogVars, pickVars>>

\* for await ended: setStatus('idle')
StreamEnds ==
    /\ hs = "consume"
    /\ gen = "completed"
    /\ hs' = "ended"
    /\ uiStatus' = IF caller = "handleSummarize" THEN "idle" ELSE uiStatus
    /\ UNCHANGED <<provider, caller, summary, errorMsg, view, desc, out, gen, todo, after, runs>>
    /\ UNCHANGED <<bodyVars, ghostVars, resourceVars, outcomeVars>>
    /\ UNCHANGED envVars
    /\ UNCHANGED <<contentArg, requests>>
    /\ UNCHANGED <<catalogVars, pickVars>>

\* for await threw: the catch block of handleSummarize
StreamThrows ==
    /\ hs = "consume"
    /\ gen = "thrown"
    /\ IF caller = "handleSummarize" THEN Caught(errVal)
       ELSE hs' = "ended" /\ UNCHANGED uiVars
    /\ UNCHANGED <<provider, caller, desc, out, gen, todo, after, runs>>
    /\ UNCHANGED <<bodyVars, ghostVars, resourceVars, outcomeVars>>
    /\ UNCHANGED envVars
    /\ UNCHANGED <<contentArg, requests>>
    /\ UNCHANGED <<catalogVars, pickVars>>

NextRun ==
    \/ HandleSummarize \/ TabsQuery \/ ExtractFails \/ ExtractContent
    \/ ConsumerStarts \/ Fetch \/ Read \/ ReadDone \/ ReadFails
    \/ YieldNext \/ LoopEnds
    \/ ChromeProbe \/ ChromeCapabilities \/ ChromeCreate
    \/ ChromeToken \/ ChromeStreamEnds \/ ChromeStreamThrows
    \/ Receive \/ Abandon \/ StreamEnds \/ StreamThrows

SpecRun == InitRun /\ [][NextRun]_vars

(***************************************************************************)
(* Claims about a summarize run.                                           *)
(***************************************************************************)
Mentions(message, piece) == \E i \in 1..Len(message) : message[i] = piece

\* fetch resolved with a response that summarize rejects
FailedResponse == provider \in Providers /\ res # NoResponse /\ (~res.ok \/ ~res.body)

RECURSIVE Shown(_)
Shown(values) ==
    IF values = <<>> THEN <<>> ELSE ToStr(Head(values)) \o Shown(Tail(values))

Running == {"start", "read", "loop", "yielded", "capabilities", "create", "stream"}

\* C13: every summarize stream ends with exactly one terminal outcome,
\* normal completion or one error, never both; a run of handleSummarize
\* that started a stream ends with status 'idle' after completion or with
\* status 'error' and a non-empty errorMsg after an error, and summary holds
\* every fragment received, also those before a mid-stream error.
C13_OneTerminalOutcome ==
    /\ errors + completions <= 1
    /\ gen = "completed" => (completions = 1 /\ errors = 0)
    /\ gen = "thrown" => (errors = 1 /\ completions = 0)
    /\ gen \in Running \cup {"returned"} => (errors = 0 /\ completions = 0)
    /\ (caller = "handleSummarize" /\ hs = "consume") =>
          (uiStatus = "streaming" /\ errorMsg = <<>>)
    /\ (caller = "handleSummarize" /\ hs = "ended" /\ gen # "none") =>
          /\ gen \in {"completed", "thrown"}
          /\ gen = "completed" => (uiStatus = "idle" /\ errorMsg = <<>>)
          /\ gen = "thrown" => (uiStatus = "error" /\ errorMsg # <<>>)
          /\ summary = Shown(out)

C13_Witness ==
    /\ caller = "handleSummarize" /\ provider = "openai"
    /\ hs = "ended" /\ gen = "thrown" /\ errVal = <<>>
    /\ uiStatus = "error" /\ errorMsg = UnknownError
    /\ summary = T_Hello

\* C14: once ChromeAIService.summarize has created its session, every way
\* out of the generator (the token stream ends, promptStreaming throws while
\* iterating, the consumer abandons the generator) has called
\* session.destroy() exactly once.
C14_SessionDestroyedOnEveryExit ==
    (provider = "chrome" /\ session # "none"
        /\ gen \in {"completed", "thrown", "returned"}) =>
        (session = "destroyed" /\ destroys = 1)

\* C15: when a network summarize stops reading before the transport's end
\* of stream (the consumer abandoned the generator, or the decoder returned
\* on 'data: [DONE]'), the reader of the response body has been cancelled
\* or released.
C15_ReaderReleasedOnEarlyStop ==
    (provider \in Providers /\ reader # "none"
        /\ (gen = "returned" \/ (gen = "completed" /\ after = "return"))) =>
        reader \in {"cancelled", "released"}

(***************************************************************************)
(* The model catalog of the App: the lookup of the selected provider's     *)
(* models (currentModels) and the choice of a model among a discovered     *)
(* list (pickBestModel).  A model id is the sequence of its characters.    *)
(* The stored cache is a record: whether the value is defined at all, and  *)
(* for each provider id whether the object has the key and the list kept   *)
(* under it.                                                               *)
(***************************************************************************)
ID_gpt4oMini == <<"g", "p", "t", "-", "4", "o", "-", "m", "i", "n", "i">>
ID_gpt4o == <<"g", "p", "t", "-", "4", "o">>
ID_gpt35Turbo == <<"g", "p", "t", "-", "3", ".", "5", "-", "t", "u", "r", "b", "o">>
ID_o1Mini == <<"o", "1", "-", "m", "i", "n", "i">>
ID_sonnet35 == <<"c", "l", "a", "u", "d", "e", "-", "3", "-", "5", "-", "s", "o", "n", "n", "e", "t", "-", "2", "0", "2", "4", "0", "6", "2", "0">>
ID_haiku3 == <<"c", "l", "a", "u", "d", "e", "-", "3", "-", "h", "a", "i", "k", "u", "-", "2", "0", "2", "4", "0", "3", "0", "7">>
ID_haiku35 == <<"c", "l", "a", "u", "d", "e", "-", "3", "-", "5", "-", "h", "a", "i", "k", "u", "-", "2", "0", "2", "4", "1", "0", "2", "2">>
ID_opus3 == <<"c", "l", "a", "u", "d", "e", "-", "3", "-", "o", "p", "u", "s", "-", "2", "0", "2", "4", "0", "2", "2", "9">>
ID_geminiPro == <<"g", "e", "m", "i", "n", "i", "-", "1", ".", "5", "-", "p", "r", "o">>
ID_flash == <<"g", "e", "m", "i", "n", "i", "-", "1", ".", "5", "-", "f", "l", "a", "s", "h">>
ID_flashLatest == <<"g", "e", "m", "i", "n", "i", "-", "1", ".", "5", "-", "f", "l", "a", "s", "h", "-", "l", "a", "t", "e", "s", "t">>
ID_flash001 == <<"g", "e", "m", "i", "n", "i", "-", "1", ".", "5", "-", "f", "l", "a", "s", "h", "-", "0", "0", "1">>
ID_geminiNano == <<"g", "e", "m", "i", "n", "i", "-", "n", "a", "n", "o">>
ID_gpt4Turbo == <<"g", "p", "t", "-", "4", "-", "t", "u", "r", "b", "o">>
KW_flash == <<"f", "l", "a", "s", "h">>
KW_mini == <<"m", "i", "n", "i">>
KW_haiku == <<"h", "a", "i", "k", "u">>
KW_turbo == <<"t", "u", "r", "b", "o">>

DEFAULT_MODELS ==
    [openai |-> <<ID_gpt4oMini, ID_gpt4o>>,
     anthropic |-> <<ID_sonnet35>>,
     gemini |-> <<ID_geminiPro>>,
     chrome |-> <<ID_geminiNano>>]

NoEntry == [has |-> FALSE, list |-> <<>>]
Entry(list) == [has |-> TRUE, list |-> list]

\* the default value of the store: {}
EmptyCache == [defined |-> TRUE, entries |-> [q \in Services |-> NoEntry]]
NoCache == [defined |-> FALSE, entries |-> [q \in Services |-> NoEntry]]

\* a variant that gives the cached entry whenever the object has the key
CurrentModelsOfKey(cache, p) ==
    IF cache.defined /\ cache.entries[p].has
    THEN cache.entries[p].list
    ELSE DEFAULT_MODELS[p]

\* (cachedModels && cachedModels[selectedProvider]?.length > 0)
\*     ? cachedModels[selectedProvider] : DEFAULT_MODELS[selectedProvider]
CurrentModels(cache, p) ==
    IF cache.defined /\ cache.entries[p].has /\ Len(cache.entries[p].list) > 0
    THEN cache.entries[p].list
    ELSE DEFAULT_MODELS[p]

\* array.includes(x)
Includes(list, x) == \E i \in 1..Len(list) : list[i] = x

\* string.includes(sub)
IncludesText(s, sub) ==
    \E i \in 0..(Len(s) - Len(sub)) : SubSeq(s, i + 1, i + Len(sub)) = sub

preferences ==
    [openai |-> <<ID_gpt4oMini, ID_gpt35Turbo>>,
     anthropic |-> <<ID_haiku3, ID_haiku35>>,
     gemini |-> <<ID_flash, ID_flashLatest, ID_flash001>>]

\* preferences[provider] || []
preferredList(p) == IF p \in DOMAIN preferences THEN preferences[p] ELSE <<>>

goodKeywords == <<KW_flash, KW_mini, KW_haiku, KW_turbo>>

\* goodKeywords.some(k => m.includes(k))
IsCandidate(m) == \E k \in 1..Len(goodKeywords) : IncludesText(m, goodKeywords[k])

\* a variant that takes the first preference whether it is listed or not
FirstPreferenceAlways(ms, prefs) == IF prefs # <<>> THEN 1 ELSE 0

\* for (const pref of preferredList) if (models.includes(pref)) return pref;
\* the position of the preference returned, 0 when the loop ends without one
FirstPreferred(ms, prefs) ==
    IF \E i \in 1..Len(prefs) : Includes(ms, prefs[i])
    THEN CHOOSE i \in 1..Len(prefs) :
            /\ Includes(ms, prefs[i])
            /\ \A j \in 1..(i - 1) : ~Includes(ms, prefs[j])
    ELSE 0

\* a variant that returns nothing when no model has a good keyword
FallbackToNone(ms, candidates) == IF candidates # <<>> THEN candidates[1] ELSE <<>>

\* steps 2 and 3: the first model with a good keyword, else models[0]
Fallback(ms, candidates) == IF candidates # <<>> THEN candidates[1] ELSE ms[1]

\* a variant that returns the first model that is a preferred one
PickFirstListed(ms, p) ==
    IF ms = <<>> THEN <<>>
    ELSE IF p = "chrome" THEN ID_geminiNano
    ELSE IF \E i \in 1..Len(ms) : Includes(preferredList(p), ms[i])
    THEN ms[CHOOSE i \in 1..Len(ms) :
               /\ Includes(preferredList(p), ms[i])
               /\ \A j \in 1..(i - 1) : ~Includes(preferredList(p), ms[j])]
    ELSE Fallback(ms, SelectSeq(ms, IsCandidate))

pickBestModel(ms, p) ==
    IF ms = <<>> THEN <<>>
    ELSE IF p = "chrome" THEN ID_geminiNano
    ELSE IF FirstPreferred(ms, preferredList(p)) # 0
    THEN preferredList(p)[FirstPreferred(ms, preferredList(p))]
    ELSE Fallback(ms, SelectSeq(ms, IsCandidate))

\* the model ids a provider's listing is drawn from
ModelIds(p) ==
    CASE p = "openai" -> {ID_gpt4oMini, ID_gpt35Turbo, ID_gpt4o, ID_o1Mini, ID_gpt4Turbo}
      [] p = "anthropic" -> {ID_haiku3, ID_haiku35, ID_sonnet35, ID_opus3}
      [] p = "gemini" -> {ID_flash, ID_flashLatest, ID_flash001, ID_geminiPro}
      [] p = "chrome" -> {ID_geminiNano, ID_gpt4o}
      [] OTHER -> {ID_opus3, ID_o1Mini}

\* the provider ids pickBestModel is called with: the four known ones and
\* one that has no entry in preferences
PickProviders == Services \cup {"mistral"}

\* the values the store may hold when the lookup runs: nothing, {}, and an
\* entry for the provider that is empty or not
CacheShapes(p) ==
    {NoCache, EmptyCache}
        \cup {[defined |-> TRUE, entries |-> [EmptyCache.entries EXCEPT ![p] = Entry(l)]] :
                l \in {<<>>} \cup {<<m>> : m \in ModelIds(p)}}

InitPick ==
    /\ NoStreamRun
    /\ errorMsg = <<>>
    /\ view = NotUsed
    /\ NoDecode
    /\ NoSettings
    /\ NoPrompt
    /\ NoGateway
    /\ provider \in PickProviders
    /\ selectedProvider \in Services
    /\ cachedModels \in CacheShapes(selectedProvider)
    /\ models \in {<<>>} \cup SeqsUpTo(ModelIds(provider), MaxModels)
    /\ bestModel = <<>>
    /\ currentModels = <<>>
    /\ applied = {}

\* a render of App computes currentModels
LookUp ==
    /\ "currentModels" \notin applied
    /\ currentModels' = CurrentModels(cachedModels, selectedProvider)
    /\ applied' = applied \cup {"currentModels"}
    /\ UNCHANGED <<models, bestModel, promptVars, gatewayVars>>
    /\ UNCHANGED <<decodeVars, runVars, catalogVars>>

\* const bestModel = pickBestModel(models, provider)
Pick ==
    /\ "pickBestModel" \notin applied
    /\ bestModel' = pickBestModel(models, provider)
    /\ applied' = applied \cup {"pickBestModel"}
    /\ UNCHANGED <<models, currentModels, promptVars, gatewayVars>>
    /\ UNCHANGED <<decodeVars, runVars, catalogVars>>

NextPick == LookUp \/ Pick

SpecPick == InitPick /\ [][NextPick]_vars

\* the provider's entry of the store holds a non-empty list
HasList(cache, p) ==
    cache.defined /\ cache.entries[p].has /\ cache.entries[p].list # <<>>

\* C18: for every known provider the catalog lookup gives a non-empty list:
\* the cached list when there is a non-empty one, else the provider's
\* built-in default list; also when the cache is absent, has no entry for
\* the provider, or holds an empty list for it.
C18_LookupNeverEmpty ==
    "currentModels" \in applied =>
        /\ currentModels # <<>>
        /\ HasList(cachedModels, selectedProvider) =>
              currentModels = cachedModels.entries[selectedProvider].list
        /\ ~HasList(cachedModels, selectedProvider) =>
              currentModels = DEFAULT_MODELS[selectedProvider]

C18_Witness ==
    /\ "currentModels" \in applied
    /\ selectedProvider = "anthropic"
    /\ cachedModels.defined /\ cachedModels.entries["anthropic"] = Entry(<<>>)
    /\ currentModels = <<ID_sonnet35>>

\* C20: for a network provider, when models holds at least one entry of the
\* provider's preference list, pickBestModel returns the earliest entry of
\* the preference list that is in models, whatever the order of models.
C20_EarliestPreference ==
    ("pickBestModel" \in applied /\ provider \in Providers
        /\ \E i \in 1..Len(preferences[provider]) : Includes(models, preferences[provider][i])) =>
        \E i \in 1..Len(preferences[provider]) :
            /\ bestModel = preferences[provider][i]
            /\ Includes(models, bestModel)
            /\ \A j \in 1..(i - 1) : ~Includes(models, preferences[provider][j])

C20_Witness ==
    /\ "pickBestModel" \in applied
    /\ provider = "openai"
    /\ models = <<ID_gpt4o, ID_gpt35Turbo, ID_gpt4oMini>>
    /\ bestModel = ID_gpt4oMini

\* C21: for the provider 'chrome' pickBestModel returns 'gemini-nano' for
\* every models argument, whatever the list contains.
C21_ChromeAlwaysNano ==
    ("pickBestModel" \in applied /\ provider = "chrome") => bestModel = ID_geminiNano

BestKeyword(ms) ==
    CHOOSE k \in 1..Len(goodKeywords) :
        /\ \E i \in 1..Len(ms) : IncludesText(ms[i], goodKeywords[k])
        /\ \A j \in 1..(k - 1) : \A i \in 1..Len(ms) : ~IncludesText(ms[i], goodKeywords[j])

\* C23: for a network provider whose preference list has no entry in models,
\* when some model contains one of 'flash', 'mini', 'haiku', 'turbo',
\* pickBestModel returns a model that contains the highest-priority keyword
\* (in that order) occurring in any model, and among those the first in the
\* order of models.
C23_KeywordPriority ==
    (/\ "pickBestModel" \in applied
     /\ provider \in Providers
     /\ FirstPreferred(models, preferredList(provider)) = 0
     /\ \E i \in 1..Len(models) : IsCandidate(models[i])) =>
        \E i \in 1..Len(models) :
            /\ bestModel = models[i]
            /\ IncludesText(models[i], goodKeywords[BestKeyword(models)])
            /\ \A j \in 1..(i - 1) :
                  ~IncludesText(models[j], goodKeywords[BestKeyword(models)])

(***************************************************************************)
(* constructPrompt (llm.ts): the instruction sent with the page text.      *)
(* Texts are sequences of characters.  The template is options.customPrompt *)
(* when it is set and SYSTEM_PROMPT otherwise; options.language is the     *)
(* browser's UI language (chrome.i18n.getUILanguage(), such as "de"),      *)
(* which holds no `$`, so the replacement text is taken literally.         *)
(***************************************************************************)
MaxParts == 3

PLACEHOLDER == <<"{", "{", "L", "A", "N", "G", "U", "A", "G", "E", "}", "}">>

SYSTEM_PROMPT ==
    <<LF, "Y", "o", "u", " ", "a", "r", "e", " ", "a", " ", "p", "r", "o", "f", "e", "s", "s",
      "i", "o", "n", "a", "l", " ", "c", "o", "n", "t", "e", "n", "t", " ", "d", "i", "s", "t",
      "i", "l", "l", "e", "r", ".", " ", "Y", "o", "u", "r", " ", "g", "o", "a", "l", " ", "i",
      "s", " ", "t", "o", " ", "s", "u", "m", "m", "a", "r", "i", "z", "e", " ", "t", "h", "e",
      " ", "f", "o", "l", "l", "o", "w", "i", "n", "g", " ", "t", "e", "x", "t", " ", "i", "n",
      "t", "o", " ", "3", " ", "s", "e", "c", "t", "i", "o", "n", "s", ":", LF, "1", ".", " ",
      "O", "n", "e", "-", "s", "e", "n", "t", "e", "n", "c", "e", " ", "T", "L", ";", "D", "R",
      ".", LF, "2", ".", " ", "K", "e", "y", " ", "T", "a", "k", "e", "a", "w", "a", "y", "s",
      " ", "(", "b", "u", "l", "l", "e", "t", " ", "p", "o", "i", "n", "t", "s", ")", ".", LF,
      "3", ".", " ", "A", "c", "t", "i", "o", "n", " ", "I", "t", "e", "m", "s", " ", "o", "r",
      " ", "C", "o", "n", "c", "l", "u", "s", "i", "o", "n", ".", LF, LF, "I", "M", "P", "O",
      "R", "T", "A", "N", "T", ":", " ", "T", "h", "e", " ", "a", "r", "t", "i", "c", "l", "e",
      " ", "m", "a", "y", " ", "b", "e", " ", "i", "n", " ", "a", "n", "y", " ", "l", "a", "n",
      "g", "u", "a", "g", "e", ",", " ", "b", "u", "t", " ", "y", "o", "u", " ", "M", "U", "S",
      "T", " ", "p", "r", "o", "v", "i", "d", "e", " ", "t", "h", "e", " ", "s", "u", "m", "m",
      "a", "r", "y", " ", "i", "n", " ", "{", "{", "L", "A", "N", "G", "U", "A", "G", "E", "}",
      "}", ".", LF>>

\* "\n\n---\n\n"
Separator == <<LF, LF, "-", "-", "-", LF, LF>>

\* the position of the first occurrence of sub in s, 0 when there is none
IndexOfText(s, sub) ==
    IF IncludesText(s, sub)
    THEN CHOOSE i \in 1..(Len(s) - Len(sub) + 1) :
            /\ SubSeq(s, i, i + Len(sub) - 1) = sub
            /\ \A j \in 1..(i - 1) : SubSeq(s, j, j + Len(sub) - 1) # sub
    ELSE 0

\* s with the n characters from position i replaced by `by`
ReplaceAt(s, i, n, by) ==
    IF i = 0 THEN s ELSE SubSeq(s, 1, i - 1) \o by \o SubSeq(s, i + n, Len(s))

\* String.prototype.replace(pattern, replacement) with a string pattern:
\* only the first occurrence of the pattern is replaced
Replace(s, pattern, replacement) ==
    ReplaceAt(s, IndexOfText(s, pattern), Len(pattern), replacement)

\* options.customPrompt || SYSTEM_PROMPT
promptTemplate(custom) == IF custom # <<>> THEN custom ELSE SYSTEM_PROMPT

\* the pieces a custom prompt is put together from
Parts == {PLACEHOLDER, <<"i", "n", " ">>, <<"{">>}

RECURSIVE Flatten(_)
Flatten(ss) == IF ss = <<>> THEN <<>> ELSE ss[1] \o Flatten(Tail(ss))

\* the custom prompts: none, and the texts of up to MaxParts pieces
Templates == {<<>>} \cup {Flatten(ss) : ss \in SeqsUpTo(Parts, MaxParts)}

Languages == {<<"d", "e">>, <<"p", "t", "-", "B", "R">>}

InitPrompt ==
    /\ NoStreamRun
    /\ errorMsg = <<>>
    /\ view = NotUsed
    /\ NoDecode
    /\ NoSettings
    /\ NoGateway
    /\ provider = "openai"
    /\ selectedProvider = "openai"
    /\ cachedModels = NoCache
    /\ models = <<>>
    /\ bestModel = <<>>
    /\ currentModels = <<>>
    /\ applied = {}
    /\ customPrompt \in Templates
    /\ language \in Languages
    /\ systemInstruction = <<>>
    /\ prompt = <<>>

\* constructPrompt(options, content)
ConstructPrompt ==
    /\ prompt = <<>>
    /\ systemInstruction' = Replace(promptTemplate(customPrompt), PLACEHOLDER, language)
    /\ \E content \in {T_Hi, PLACEHOLDER} :
          prompt' = systemInstruction' \o Separator \o content
    /\ UNCHANGED <<customPrompt, language>>
    /\ UNCHANGED <<models, bestModel, currentModels, applied, gatewayVars>>
    /\ UNCHANGED <<decodeVars, runVars, catalogVars>>

NextPrompt == ConstructPrompt

SpecPrompt == InitPrompt /\ [][NextPrompt]_vars

\* C24: constructPrompt replaces every occurrence of '{{LANGUAGE}}' in the
\* chosen template (customPrompt when set, else the default) with
\* options.language: the instruction returned never contains the
\* placeholder, also for a template with two or more occurrences.
C24_NoPlaceholderLeft ==
    prompt # <<>> => ~IncludesText(systemInstruction, PLACEHOLDER)

(***************************************************************************)
(* The settings of the App: credential edits with the debounced refresh of *)
(* the model cache, the Refresh button, the Check button (handleVerifyKey) *)
(* and the getModels calls they start.  Time is a clock in ms; a timeout   *)
(* fires when its deadline is reached, before the clock moves on.  The     *)
(* Settings and Close buttons switch between the views at any time, so the *)
(* view a handler's control is shown in does not guard the handler.        *)
(***************************************************************************)
\* setTimeout(() => fetchModels(...), 1000)
SettleDelay == 1000
\* setTimeout(() => { ...; setView('main'); }, 1000)
BackDelay == 1000

\* the clock moves by half a settle delay, MaxTicks times at most
TickMs == SettleDelay \div 2
MaxTime == MaxTicks * TickMs

KEY_skA == <<"s", "k", "-", "a">>
KEY_skB == <<"s", "k", "-", "b">>
KEY_pkA == <<"p", "k", "-", "a">>
KEY_skAntA == <<"s", "k", "-", "a", "n", "t", "-", "a">>
KEY_geminiA == <<"A", "I", "z", "a", "S", "y", "A", "-", "1", "2", "3">>
KEY_short == <<"A", "I", "z", "a">>
PRE_sk == <<"s", "k", "-">>
PRE_skAnt == <<"s", "k", "-", "a", "n", "t", "-">>

\* what the user may have in a key field
KeysOf(p) ==
    CASE p = "openai" -> {KEY_skA, KEY_skB, KEY_pkA}
      [] p = "anthropic" -> {KEY_skAntA, KEY_skA}
      [] p = "gemini" -> {KEY_geminiA, KEY_short}

\* a variant of the test that takes every key that is not empty
ValidKeyNonEmpty(p, key) == key # <<>>

\* openaiKey && openaiKey.startsWith('sk-'), anthropicKey &&
\* anthropicKey.startsWith('sk-ant-'), geminiKey && geminiKey.length > 10
ValidKey(p, key) ==
    /\ key # <<>>
    /\ CASE p = "openai" -> StartsWith(key, PRE_sk)
         [] p = "anthropic" -> StartsWith(key, PRE_skAnt)
         [] p = "gemini" -> Len(key) > 10

\* what a provider's getModels may return when the listing succeeds (ids
\* in descending order)
Listings(p) ==
    CASE p = "openai" -> {<<ID_gpt4oMini, ID_gpt4o>>, <<ID_gpt35Turbo>>}
      [] p = "anthropic" -> {<<ID_sonnet35, ID_haiku35>>}
      [] p = "gemini" -> {<<ID_geminiPro, ID_flash>>}

NoTimer == [set |-> FALSE, at |-> 0, key |-> <<>>]
Timer(at, key) == [set |-> TRUE, at |-> at, key |-> key]

\* a variant of clearTimeout that leaves the timeout pending
ClearTimeoutKeeps(pendingTimeouts, ref) == pendingTimeouts

\* clearTimeout(timer.current)
ClearTimeout(pendingTimeouts, ref) == pendingTimeouts \ {ref}

\* a variant that takes any list
AcceptsAny(ms) == TRUE

\* models && models.length > 0
Accepts(ms) == ms # <<>>

\* a variant that adds the list to the entry
WithMerged(cache, p, ms) ==
    [defined |-> TRUE,
     entries |-> [cache.entries EXCEPT ![p] = Entry(cache.entries[p].list \o ms)]]

\* prev => ({ ...prev, [provider]: models })
WithEntry(cache, p, ms) ==
    [defined |-> TRUE, entries |-> [cache.entries EXCEPT ![p] = Entry(ms)]]

\* a variant that takes the last element of the list
ValidModelLast(list, m) ==
    IF ~Includes(list, m) /\ list # <<>> THEN list[Len(list)] ELSE m

\* the effect that keeps the selected model one of currentModels
ValidModel(list, m) == IF ~Includes(list, m) /\ list # <<>> THEN list[1] ELSE m

NoBurst == [n |-> 0, last |-> 0, calls |-> <<>>]

\* per provider: the number of getModels calls issued, the number of the
\* call whose list is the cached one, and the highest number of a call that
\* has returned a list
NoOrder ==
    [issued |-> [p \in Providers |-> 0],
     writer |-> [p \in Providers |-> 0],
     latest |-> [p \in Providers |-> 0]]
Issued(p) == [order EXCEPT !.issued[p] = @ + 1]
Max(a, b) == IF a >= b THEN a ELSE b
Written(call, ms) ==
    IF ms # <<>>
    THEN [order EXCEPT !.writer[call.provider] = call.n,
                       !.latest[call.provider] = Max(@, call.n)]
    ELSE order
NoCall == [provider |-> "none", via |-> "none", models |-> <<>>]
VerificationFailed == <<"Verification failed: ", "No models returned. Key might be invalid.">>

\* the stored cache at start: {} or one entry written by an earlier discovery
InitCaches ==
    {EmptyCache} \cup {WithEntry(EmptyCache, p, l) : p \in {"openai"}, l \in Listings("openai")}

InitCatalog ==
    /\ NoStreamRun
    /\ NoDecode
    /\ NoPick
    /\ provider = NotUsed
    /\ errorMsg = <<>>
    /\ view = "main"
    /\ apiKeys = [p \in Providers |-> <<>>]
    /\ timeouts = [p \in Providers |-> {}]
    /\ timerRef = [p \in Providers |-> NoTimer]
    /\ now = 0
    /\ cachedModels \in InitCaches
    /\ inflight = EmptyBag
    /\ isFetchingModels = FALSE
    /\ selectedProvider = "openai"
    /\ selectedModel = ID_gpt4oMini
    /\ verifyingProvider = "null"
    /\ verifiedProvider = "null"
    /\ backTimers = {}
    /\ burst = [p \in Providers |-> NoBurst]
    /\ lastDone = NoCall
    /\ acts = 0
    /\ order = NoOrder

otherVars == <<decodeVars, streamVars, pickVars>>

\* the run of valid edits after an edit of p's key to k
BurstAfter(b, p, k) ==
    IF ~ValidKey(p, k) THEN NoBurst
    ELSE IF b.n > 0 /\ now < b.last + SettleDelay
    THEN [n |-> b.n + 1, last |-> now, calls |-> b.calls]
    ELSE [n |-> 1, last |-> now, calls |-> <<>>]

\* the timeouts of p after the effect of a key change ran: cleanup of the
\* previous effect, clearTimeout, and setTimeout when the key is valid
TimeoutsAfter(pendingTimeouts, ref, p, k) ==
    ClearTimeout(pendingTimeouts, ref)
        \cup (IF ValidKey(p, k) THEN {Timer(now + SettleDelay, k)} ELSE {})

\* onChange of a key field, and the effect of the provider's key
EditKey ==
    /\ acts < MaxActs
    /\ \E p \in Providers : \E k \in KeysOf(p) \ {apiKeys[p]} :
          /\ apiKeys' = [apiKeys EXCEPT ![p] = k]
          /\ timeouts' = [timeouts EXCEPT ![p] = TimeoutsAfter(timeouts[p], timerRef[p], p, k)]
          /\ timerRef' = [timerRef EXCEPT ![p] =
                             IF ValidKey(p, k) THEN Timer(now + SettleDelay, k) ELSE @]
          /\ burst' = [burst EXCEPT ![p] = BurstAfter(@, p, k)]
    /\ acts' = acts + 1
    /\ UNCHANGED <<now, cachedModels, inflight, isFetchingModels, selectedProvider,
                   selectedModel, verifyingProvider, verifiedProvider, backTimers,
                   lastDone, order>>
    /\ UNCHANGED <<errorMsg, view, otherVars>>

\* fetchModels up to await service.getModels(apiKey)
Call(p, key, via) ==
    [provider |-> p, key |-> key, via |-> via, n |-> order.issued[p] + 1]

\* a debounce timeout fires: fetchModels(provider, key of the edit)
TimerFires ==
    /\ \E p \in Providers : \E t \in timeouts[p] :
          /\ t.at <= now
          /\ timeouts' = [timeouts EXCEPT ![p] = @ \ {t}]
          /\ inflight' = inflight (+) SetToBag({Call(p, t.key, "fetchModels")})
          /\ order' = Issued(p)
          /\ burst' = [burst EXCEPT ![p].calls = Append(@, [at |-> now, key |-> t.key])]
    /\ isFetchingModels' = TRUE
    /\ UNCHANGED <<apiKeys, timerRef, now, cachedModels, selectedProvider,
                   selectedModel, verifyingProvider, verifiedProvider, backTimers,
                   lastDone, acts>>
    /\ UNCHANGED <<errorMsg, view, otherVars>>

\* the Refresh Models button: shown for a network provider with a key,
\* disabled while isFetchingModels
Refresh ==
    /\ acts < MaxActs
    /\ selectedProvider \in Providers
    /\ apiKeys[selectedProvider] # <<>>
    /\ ~isFetchingModels
    /\ isFetchingModels' = TRUE
    /\ inflight' = inflight (+) SetToBag({Call(selectedProvider, apiKeys[selectedProvider], "fetchModels")})
    /\ order' = Issued(selectedProvider)
    /\ acts' = acts + 1
    /\ UNCHANGED <<apiKeys, timeouts, timerRef, now, cachedModels, selectedProvider,
                   selectedModel, verifyingProvider, verifiedProvider, backTimers,
                   burst, lastDone>>
    /\ UNCHANGED <<errorMsg, view, otherVars>>

\* the Check button: handleVerifyKey up to await service.getModels(apiKey)
VerifyKey ==
    /\ acts < MaxActs
    /\ \E p \in Providers :
          /\ apiKeys[p] # <<>>
          /\ verifyingProvider # p
          /\ verifyingProvider' = p
          /\ inflight' = inflight (+) SetToBag({Call(p, apiKeys[p], "handleVerifyKey")})
          /\ order' = Issued(p)
    /\ verifiedProvider' = "null"
    /\ acts' = acts + 1
    /\ UNCHANGED <<apiKeys, timeouts, timerRef, now, cachedModels, isFetchingModels,
                   selectedProvider, selectedModel, backTimers,
                   burst, lastDone>>
    /\ UNCHANGED <<errorMsg, view, otherVars>>

\* what every return of getModels leaves behind
Returned(call, ms) ==
    /\ lastDone' = [provider |-> call.provider, via |-> call.via, models |-> ms]
    /\ order' = Written(call, ms)

\* the rest of fetchModels
FetchModelsReturns(call, ms) ==
    /\ call.via = "fetchModels"
    /\ cachedModels' = IF Accepts(ms) THEN WithEntry(cachedModels, call.provider, ms)
                       ELSE cachedModels
    /\ isFetchingModels' = FALSE
    /\ selectedModel' = ValidModel(CurrentModels(cachedModels', selectedProvider), selectedModel)
    /\ UNCHANGED <<selectedProvider, verifyingProvider, verifiedProvider, backTimers,
                   errorMsg>>

\* the rest of handleVerifyKey
VerifyKeyReturns(call, ms) ==
    /\ call.via = "handleVerifyKey"
    /\ IF Accepts(ms)
       THEN /\ cachedModels' = WithEntry(cachedModels, call.provider, ms)
            /\ verifiedProvider' = call.provider
            /\ selectedProvider' = call.provider
            /\ selectedModel' = ValidModel(CurrentModels(cachedModels', selectedProvider'),
                                           IF pickBestModel(ms, call.provider) # <<>>
                                           THEN pickBestModel(ms, call.provider)
                                           ELSE selectedModel)
            /\ backTimers' = backTimers \cup {now + BackDelay}
            /\ UNCHANGED errorMsg
       ELSE /\ errorMsg' = VerificationFailed
            /\ UNCHANGED <<cachedModels, verifiedProvider, selectedProvider,
                           selectedModel, backTimers>>
    /\ verifyingProvider' = "null"
    /\ UNCHANGED isFetchingModels

\* service.getModels returns: the listing, or [] when the request failed
GetModelsReturns ==
    /\ \E call \in BagToSet(inflight) :
       \E ms \in Listings(call.provider) \cup {<<>>} :
          /\ inflight' = inflight (-) SetToBag({call})
          /\ Returned(call, ms)
          /\ \/ FetchModelsReturns(call, ms)
             \/ VerifyKeyReturns(call, ms)
    /\ UNCHANGED <<apiKeys, timeouts, timerRef, now, burst, acts>>
    /\ UNCHANGED <<view, otherVars>>

\* the timeout set after a successful check
BackToMain ==
    /\ \E t \in backTimers :
          /\ t <= now
          /\ backTimers' = backTimers \ {t}
    /\ verifiedProvider' = "null"
    /\ verifyingProvider' = "null"
    /\ view' = "main"
    /\ UNCHANGED <<apiKeys, timeouts, timerRef, now, cachedModels, inflight,
                   isFetchingModels, selectedProvider, selectedModel,
                   burst, lastDone, acts, order>>
    /\ UNCHANGED <<errorMsg, otherVars>>

Deadlines == backTimers \cup UNION {{t.at : t \in timeouts[p]} : p \in Providers}

Earliest(times) == CHOOSE t \in times : \A u \in times : t <= u

\* time passes, up to the next deadline
Tick ==
    /\ now < MaxTime
    /\ \A d \in Deadlines : d > now
    /\ now' = Earliest(Deadlines \cup {now + TickMs})
    /\ UNCHANGED <<apiKeys, timeouts, timerRef, cachedModels, inflight,
                   isFetchingModels, selectedProvider, selectedModel,
                   verifyingProvider, verifiedProvider, backTimers,
                   burst, lastDone, acts, order>>
    /\ UNCHANGED <<errorMsg, view, otherVars>>

NextCatalog ==
    \/ EditKey \/ TimerFires \/ Refresh \/ VerifyKey \/ GetModelsReturns
    \/ BackToMain \/ Tick

SpecCatalog == InitCatalog /\ [][NextCatalog]_vars

\* C16: a run of n >= 1 edits of one provider's key, each a valid key and
\* each less than the settle delay after the one before, causes exactly one
\* getModels call for the provider: none before the settle delay has passed
\* since the last edit, then one, made at that time with the key of the last
\* edit; until then the only pending timeout is the one of the last edit.
C16_DebouncedRefresh ==
    \A p \in Providers :
        burst[p].n >= 1 =>
            /\ Len(burst[p].calls) <= 1
            /\ now < burst[p].last + SettleDelay => burst[p].calls = <<>>
            /\ burst[p].calls = <<>> =>
                  /\ timeouts[p] = {Timer(burst[p].last + SettleDelay, apiKeys[p])}
                  /\ now <= burst[p].last + SettleDelay
            /\ burst[p].calls # <<>> =>
                  /\ burst[p].calls = <<[at |-> burst[p].last + SettleDelay, key |-> apiKeys[p]]>>
                  /\ timeouts[p] = {}

C16_Witness ==
    /\ burst["openai"].n = 2
    /\ burst["openai"].last > 0
    /\ apiKeys["openai"] = KEY_skB
    /\ burst["openai"].calls = <<[at |-> burst["openai"].last + SettleDelay, key |-> KEY_skB]>>

\* C17: when a getModels call made by fetchModels returns a non-empty list,
\* the cached entry of its provider becomes exactly that list; when it
\* returns an empty list (the request failed or threw inside getModels) the
\* cached entry of the provider stays what it was.
C17_RefreshOutcome ==
    [][(BagCardinality(inflight') < BagCardinality(inflight) /\ lastDone'.via = "fetchModels") =>
          IF lastDone'.models # <<>>
          THEN cachedModels'.entries[lastDone'.provider] = Entry(lastDone'.models)
          ELSE cachedModels'.entries[lastDone'.provider]
                   = cachedModels.entries[lastDone'.provider]]_vars

C17_Witness ==
    /\ lastDone = [provider |-> "openai", via |-> "fetchModels", models |-> <<ID_gpt35Turbo>>]
    /\ cachedModels.entries["openai"] = Entry(<<ID_gpt35Turbo>>)
    /\ burst["openai"].calls # <<>>

\* C19: every entry of the model cache is absent or is the whole non-empty
\* list that one discovery call for that provider can return (Listings), never
\* a mix of two lists or a part of one.
C19_EntriesAreWholeResults ==
    /\ cachedModels.defined
    /\ \A p \in Providers :
          cachedModels.entries[p].has =>
              /\ cachedModels.entries[p].list # <<>>
              /\ cachedModels.entries[p].list \in Listings(p)
    /\ ~cachedModels.entries["chrome"].has

C19_Witness ==
    /\ lastDone = [provider |-> "openai", via |-> "handleVerifyKey",
                   models |-> <<ID_gpt4oMini, ID_gpt4o>>]
    /\ cachedModels.entries["openai"] = Entry(lastDone.models)
    /\ selectedModel = ID_gpt4oMini
    /\ verifiedProvider = "openai"


(***************************************************************************)
(* validateKey and getModels of the three network providers.  A call is    *)
(* made with a key; the provider's server answers a list request in one of *)
(* four ways: the request fails (fetch rejects), the answer is not a       *)
(* success (401), the answer is a success whose body is not a listing, or  *)
(* the answer is a success with a listing of model ids.  How the server    *)
(* answers does not depend on the format of the key.                       *)
(***************************************************************************)
MaxListed == 3

ID_textEmbedding3Small ==
    <<"t", "e", "x", "t", "-", "e", "m", "b", "e", "d", "d", "i", "n", "g", "-", "3", "-", "s", "m", "a", "l", "l">>
ID_embedding001 == <<"e", "m", "b", "e", "d", "d", "i", "n", "g", "-", "0", "0", "1">>
ID_geminiEmbedding001 ==
    <<"g", "e", "m", "i", "n", "i", "-", "e", "m", "b", "e", "d", "d", "i", "n", "g", "-", "0", "0", "1">>
PRE_models == <<"m", "o", "d", "e", "l", "s", "/">>
KW_gpt == <<"g", "p", "t">>
KW_o1 == <<"o", "1">>
KW_o3 == <<"o", "3">>
KW_gemini == <<"g", "e", "m", "i", "n", "i">>

\* the order of the characters of model ids under localeCompare:
\* punctuation, then digits, then letters
Collation ==
    <<"-", ".", "/", "0", "1", "2", "3", "4", "5", "6", "7", "8", "9",
      "a", "b", "c", "d", "e", "f", "g", "h", "i", "j", "k", "l", "m",
      "n", "o", "p", "q", "r", "s", "t", "u", "v", "w", "x", "y", "z">>

Rank(c) == CHOOSE i \in 1..Len(Collation) : Collation[i] = c

\* a.localeCompare(b) < 0
RECURSIVE Before(_, _)
Before(a, b) ==
    IF b = <<>> THEN FALSE
    ELSE IF a = <<>> THEN TRUE
    ELSE IF Head(a) = Head(b) THEN Before(Tail(a), Tail(b))
    ELSE Rank(Head(a)) < Rank(Head(b))

\* list with x put in front of the first element that x does not come before
RECURSIVE InsertDesc(_, _)
InsertDesc(x, list) ==
    IF list = <<>> THEN <<x>>
    ELSE IF Before(x, Head(list)) THEN <<Head(list)>> \o InsertDesc(x, Tail(list))
    ELSE <<x>> \o list

\* .sort((a, b) => b.localeCompare(a))
RECURSIVE SortDesc(_)
SortDesc(list) ==
    IF list = <<>> THEN <<>> ELSE InsertDesc(Head(list), SortDesc(Tail(list)))

\* the id of an entry of the listing: m.id, or m.name.replace('models/', '')
IdOf(p, name) == IF p = "gemini" THEN Replace(name, PRE_models, <<>>) ELSE name

\* the filter of a provider's getModels (Anthropic's has none)
Relevant(p, id) ==
    CASE p = "openai" ->
            IncludesText(id, KW_gpt) \/ StartsWith(id, KW_o1) \/ StartsWith(id, KW_o3)
      [] p = "anthropic" -> TRUE
      [] p = "gemini" -> IncludesText(id, KW_gemini)

RECURSIVE RelevantIds(_, _)
RelevantIds(p, names) ==
    IF names = <<>> THEN <<>>
    ELSE IF Relevant(p, IdOf(p, Head(names)))
    THEN <<IdOf(p, Head(names))>> \o RelevantIds(p, Tail(names))
    ELSE RelevantIds(p, Tail(names))

\* what getModels returns for a listing
ListOf(p, names) == SortDesc(RelevantIds(p, names))

\* the names a provider's server may report
Reported(p) ==
    CASE p = "openai" -> {ID_gpt4o, ID_o1Mini, ID_textEmbedding3Small}
      [] p = "anthropic" -> {ID_haiku3, ID_opus3, ID_sonnet35}
      [] p = "gemini" ->
            {PRE_models \o id : id \in {ID_geminiPro, ID_embedding001, ID_geminiEmbedding001}}

Answer(kind, names) == [kind |-> kind, names |-> names]

Answers(p) ==
    {Answer(k, <<>>) : k \in {"rejects", "unauthorized", "no listing"}}
        \cup {Answer("listing", names) : names \in {<<>>} \cup SeqsUpTo(Reported(p), MaxListed)}

GatewayKeys == {KEY_skA, KEY_pkA, KEY_skAntA, KEY_geminiA, KEY_short}

Valid(b) == [returned |-> TRUE, valid |-> b, list |-> <<>>]
Listed(list) == [returned |-> TRUE, valid |-> FALSE, list |-> list]

InitGateway ==
    /\ NoStreamRun
    /\ errorMsg = <<>>
    /\ view = NotUsed
    /\ NoDecode
    /\ NoSettings
    /\ NoPrompt
    /\ NoPanel
    /\ selectedProvider = "openai"
    /\ cachedModels = NoCache
    /\ models = <<>>
    /\ bestModel = <<>>
    /\ currentModels = <<>>
    /\ applied = {}
    /\ provider \in Providers
    /\ method \in {"validateKey", "getModels"}
    /\ apiKey \in GatewayKeys
    /\ server \in Answers(provider)
    /\ stage = "called"
    /\ listRequests = 0
    /\ result = NoResult

gatewayFrame ==
    <<decodeVars, runVars, catalogVars, models, bestModel, currentModels, applied,
      promptVars, method, apiKey, server, panelVars>>

\* validateKey(key) up to its return or its request
ValidateKey ==
    /\ method = "validateKey"
    /\ stage = "called"
    /\ \/ /\ provider = "openai"
          /\ ~StartsWith(apiKey, PRE_sk)
          /\ stage' = "returned"
          /\ result' = Valid(FALSE)
          /\ UNCHANGED listRequests
       \/ /\ provider = "openai"
          /\ StartsWith(apiKey, PRE_sk)
          /\ stage' = "awaiting"
          /\ listRequests' = listRequests + 1
          /\ UNCHANGED result
       \/ /\ provider = "anthropic"
          /\ stage' = "returned"
          /\ result' = Valid(StartsWith(apiKey, PRE_skAnt))
          /\ UNCHANGED listRequests
       \/ /\ provider = "gemini"
          /\ stage' = "returned"
          /\ result' = Valid(Len(apiKey) > 10)
          /\ UNCHANGED listRequests
    /\ UNCHANGED gatewayFrame

\* validateKey: the list request is answered (return res.ok) or fails
ValidateKeyReturns ==
    /\ method = "validateKey"
    /\ stage = "awaiting"
    /\ stage' = "returned"
    /\ result' = Valid(server.kind \in {"listing", "no listing"})
    /\ UNCHANGED listRequests
    /\ UNCHANGED gatewayFrame

\* getModels(apiKey) up to its request
GetModels ==
    /\ method = "getModels"
    /\ stage = "called"
    /\ stage' = "awaiting"
    /\ listRequests' = listRequests + 1
    /\ UNCHANGED result
    /\ UNCHANGED gatewayFrame

\* getModels: the request is answered or fails
GetModelsAnswered ==
    /\ method = "getModels"
    /\ stage = "awaiting"
    /\ stage' = "returned"
    /\ result' = IF server.kind = "listing"
                 THEN Listed(ListOf(provider, server.names))
                 ELSE Listed(<<>>)
    /\ UNCHANGED listRequests
    /\ UNCHANGED gatewayFrame

NextGateway == ValidateKey \/ ValidateKeyReturns \/ GetModels \/ GetModelsAnswered

SpecGateway == InitGateway /\ [][NextGateway]_vars

\* C25: validateKey of each network provider returns true only if an
\* authenticated list request with that key got an HTTP success: a key of
\* valid format that the server rejects is reported invalid; a failed
\* format check may return false without a request; a request that fails
\* gives false.
C25_ValidOnlyAfterSuccess ==
    (method = "validateKey" /\ stage = "returned" /\ result.valid) =>
        /\ listRequests = 1
        /\ server.kind \in {"listing", "no listing"}

\* an id of a model that only embeds
EmbeddingOnly(id) == id \in {ID_textEmbedding3Small, ID_embedding001, ID_geminiEmbedding001}

Count(list, x) == Cardinality({i \in 1..Len(list) : list[i] = x})

\* C26: getModels of each network provider returns a list in reverse
\* lexical order (no element comes before its successor) that holds exactly
\* the reported ids that pass the provider's filter, so that embedding-only
\* and vision-only ids are left out; when the answer is not a success or
\* the request fails it returns the empty list.
C26_SortedRelevantList ==
    (method = "getModels" /\ stage = "returned") =>
        /\ \A i \in 1..(Len(result.list) - 1) : ~Before(result.list[i], result.list[i + 1])
        /\ \A n \in Reported(provider) :
              Count(result.list, IdOf(provider, n)) =
                  IF Relevant(provider, IdOf(provider, n)) THEN Count(server.names, n) ELSE 0
        /\ \A i \in 1..Len(result.list) : ~EmbeddingOnly(result.list[i])
        /\ server.kind # "listing" => result.list = <<>>


(***************************************************************************)
(* Further claims about a summarize run (SpecRun).                         *)
(***************************************************************************)
\* the fragments that the bytes read so far decode to
DecodedSoFar ==
    Feed(provider, <<>>, TextDecode(<<>>, SubSeq(wire, 1, pos)).text).frags

\* the text the fragments yielded so far add up to
Delivered == Flatten([i \in 1..Len(out) |-> ToStr(out[i])])

\* C27: in every provider's summarize a fragment decoded from a complete
\* unit of chunk k is yielded before chunk k+1 is requested: whenever the
\* generator is about to read, nothing decoded is waiting to be yielded and
\* what was yielded is all that the bytes read so far decode to (and, under
\* handleSummarize, is in the summary); no stream gathers the whole
\* response before its first yield.
C27_IncrementalDelivery ==
    /\ (provider \in Providers /\ gen = "read") =>
          /\ todo = <<>>
          /\ out = DecodedSoFar
          /\ caller = "handleSummarize" => summary = Delivered
    /\ (provider = "chrome" /\ gen = "stream") =>
          /\ todo = <<>>
          /\ caller = "handleSummarize" => summary = Delivered

C27_Witness ==
    /\ provider \in Providers
    /\ gen = "read"
    /\ out # <<>>
    /\ pos < Len(wire)
    /\ caller = "handleSummarize"
    /\ summary # <<>>


OneListRequest ==
    /\ listRequests <= 1
    /\ (method = "getModels" /\ stage # "called") => listRequests = 1


\* fetchModels and handleVerifyKey (SpecCatalog): a getModels call starts
\* only on a click or when a debounce timeout fires, one call at a time,
\* and the return of a call, also of a failed one, starts none
CallsOnlyOnRequest ==
    [][/\ BagCardinality(inflight') > BagCardinality(inflight) =>
             /\ BagCardinality(inflight') = BagCardinality(inflight) + 1
             /\ acts' = acts + 1 \/ timeouts' # timeouts
       /\ lastDone' # lastDone =>
             BagCardinality(inflight') = BagCardinality(inflight) - 1]_vars


\* C29: summarize is never called with empty or absent content: whenever
\* the extraction delivers no text (the page is not reader-able, or
\* Readability.parse() gives null or an empty textContent), handleSummarize
\* ends in 'error' without opening a provider stream.
C29_NoStreamWithoutText ==
    (caller = "handleSummarize" /\ gen # "none") =>
        contentArg.t = "str" /\ contentArg.s # <<>>


\* C30: the credential gate.  With a network provider selected and an
\* empty stored credential, handleSummarize only switches the view to
\* 'settings': no extraction request is sent, no stream is opened, and
\* status, summary and errorMsg keep their values.  The on-device provider
\* needs no stored credential: its key is never empty.
C30_CredentialGate ==
    [][/\ (caller = "handleSummarize" /\ currentKey = "") =>
             /\ provider \in Providers
             /\ hs = "idle" /\ gen = "none" /\ runs = 0 /\ requests = 0
             /\ view' = "settings"
             /\ UNCHANGED <<hs, uiStatus, summary, errorMsg, gen, runs, requests>>
       /\ provider = "chrome" => currentKey # ""]_vars

C30_Witness ==
    /\ caller = "handleSummarize"
    /\ provider \in Providers
    /\ currentKey = ""
    /\ view = "settings"
    /\ uiStatus = "error"
    /\ errorMsg = UnknownError


(***************************************************************************)
(* Further claims about pickBestModel (SpecPick).                          *)
(***************************************************************************)
\* C40: for every network provider and every non-empty models list the id
\* that pickBestModel returns is an element of models, so the model that
\* handleVerifyKey selects after a successful Check is in the list it has
\* just cached.
C40_PickedIsListed ==
    ("pickBestModel" \in applied /\ provider \in Providers /\ models # <<>>) =>
        Includes(models, bestModel)

C40_Witness ==
    /\ "pickBestModel" \in applied
    /\ provider = "anthropic"
    /\ models = <<ID_opus3, ID_haiku35>>
    /\ bestModel = ID_haiku35


\* the text of the fragments that the consumer has taken from the stream
Received ==
    IF gen = "yielded"
    THEN Flatten([i \in 1..(Len(out) - 1) |-> ToStr(out[i])])
    ELSE Delivered

\* C31: single flight in the UI.  The Summarize button is enabled only when
\* status is neither 'loading' nor 'streaming', so a run of handleSummarize
\* starts only when none is in progress, and summary, emptied at the start
\* of each run, is at all times the in-order concatenation of the fragments
\* taken from the latest stream.
C31_SingleFlight ==
    [][caller = "handleSummarize" =>
          /\ (hs' = "query" /\ hs # "query") => hs \in {"idle", "ended"}
          /\ hs' # "idle" => summary' = Received'
          /\ hs' \in {"query", "extract"} => summary' = <<>> /\ out' = <<>>]_vars

C31_Witness ==
    /\ caller = "handleSummarize"
    /\ runs = 2
    /\ hs = "ended"
    /\ uiStatus = "idle"
    /\ out # <<>>
    /\ summary = Delivered


(***************************************************************************)
(* Further claims about the settings (SpecCatalog).                        *)
(***************************************************************************)
\* the fetchModels calls that await their getModels
FetchesInFlight == {c \in BagToSet(inflight) : c.via = "fetchModels"}

\* C36: isFetchingModels is true in every state in which at least one
\* fetchModels call awaits its getModels, also when fetches overlap; it is
\* false only when no fetchModels call is in flight.
C36_FetchingWhileInFlight ==
    FetchesInFlight # {} => isFetchingModels


\* the format check of the claim, written out
PassesFormat(p, key) ==
    /\ key # <<>>
    /\ \/ p = "openai" /\ StartsWith(key, <<"s", "k", "-">>)
       \/ p = "anthropic" /\ StartsWith(key, <<"s", "k", "-", "a", "n", "t", "-">>)
       \/ p = "gemini" /\ Len(key) > 10

\* C39: debounce gating.  A credential edit schedules a refresh only if the
\* new value passes the provider's format check; an edit to a value that
\* fails it cancels the provider's pending timer and schedules none; so the
\* debounced path never calls getModels with a credential that fails the
\* check.
C39_DebounceGated ==
    \A p \in Providers :
        /\ \A t \in timeouts[p] : PassesFormat(p, t.key)
        /\ ~PassesFormat(p, apiKeys[p]) => timeouts[p] = {}
        /\ \A i \in 1..Len(burst[p].calls) : PassesFormat(p, burst[p].calls[i].key)

C39_Witness ==
    /\ apiKeys["openai"] = KEY_pkA
    /\ timerRef["openai"].set
    /\ timeouts["openai"] = {}
    /\ inflight = EmptyBag
    /\ now = 0


\* C38, within the state of the App: the return of a getModels call of
\* fetchModels or handleVerifyKey for provider p, with a list or without,
\* leaves the cachedModels entry of every other provider as it was, and an
\* edit of the credential of p leaves the pending timeouts and the timer
\* reference of every other provider as they were.
C38_RefreshFrame ==
    [][/\ \A c \in BagToSet(inflight) :
             inflight' = inflight (-) SetToBag({c}) =>
                 \A q \in Providers \ {c.provider} :
                     cachedModels'.entries[q] = cachedModels.entries[q]
       /\ \A p \in Providers :
             apiKeys'[p] # apiKeys[p] =>
                 \A q \in Providers \ {p} :
                     timeouts'[q] = timeouts[q] /\ timerRef'[q] = timerRef[q]]_vars

C38_Witness ==
    /\ lastDone.provider = "anthropic"
    /\ lastDone.models # <<>>
    /\ cachedModels.entries["anthropic"].list = lastDone.models
    /\ cachedModels.entries["openai"].has
    /\ apiKeys["anthropic"] # <<>>
    /\ apiKeys["openai"] = <<>>


\* C33: stale refresh responses.  When two getModels calls for the same
\* provider overlap, the cached list of the provider is in the end the list
\* of the call that was issued last: a late return of a call issued
\* earlier never replaces the list of a call issued later.
C33_LatestCallWins ==
    \A p \in Providers : order.writer[p] = order.latest[p]

(***************************************************************************)
(* The on-device service: ChromeAIService.getAvailability and getModels    *)
(* (chrome_ai.ts).  The browser is given by what self.ai and window.ai     *)
(* are: undefined, an object without languageModel, or an object whose     *)
(* languageModel.capabilities() resolves with a value of `available`,      *)
(* resolves with an object that has no such field, or rejects.             *)
(***************************************************************************)

NoAi == [defined |-> FALSE, languageModel |-> FALSE, capabilities |-> "none"]
Ai(lm, caps) == [defined |-> TRUE, languageModel |-> lm, capabilities |-> caps]

Capabilities == {"readily", "after-download", "no", "none", "rejects"}

AiObjects == {NoAi, Ai(FALSE, "none")} \cup {Ai(TRUE, c) : c \in Capabilities}

Globals == [self : AiObjects, window : AiObjects]

\* (self as any).ai || (window as any).ai
AiOf(g) == IF g.self.defined THEN g.self ELSE g.window

\* a variant that never reports the model as not ready
AvailableWhatever(available) == "AVAILABLE"

\* if (capabilities.available === 'no') return 'MODEL_NOT_READY'; return 'AVAILABLE'
Available(available) ==
    IF available = "no" THEN "MODEL_NOT_READY" ELSE "AVAILABLE"

InitAvailability ==
    /\ NoRun
    /\ NoDecode
    /\ NoCatalog
    /\ NoPrompt
    /\ models = <<>>
    /\ bestModel = <<>>
    /\ currentModels = <<>>
    /\ applied = {}
    /\ provider = "chrome"
    /\ apiKey = <<>>
    /\ server = NotUsed
    /\ listRequests = 0
    /\ chromeAIStatus = NotUsed
    /\ probe = NotUsed
    /\ stored = NotUsed
    /\ opened = NotUsed
    /\ value = NotUsed
    /\ channel = NotUsed
    /\ panelActs = 0
    /\ globals \in Globals
    /\ method \in {"getAvailability", "getModels"}
    /\ stage = "called"
    /\ availability = "none"
    /\ result = NoResult

availabilityFrame ==
    <<decodeVars, runVars, catalogVars, models, bestModel, currentModels, applied,
      promptVars, method, apiKey, server, listRequests, globals, chromeAIStatus, probe,
      stored, opened, value, channel, panelActs>>

\* getAvailability up to its first return or its await; getModels starts with
\* a call of it
GetAvailability ==
    /\ stage = "called"
    /\ IF ~AiOf(globals).defined \/ ~AiOf(globals).languageModel
       THEN availability' = "API_MISSING" /\ stage' = "probed"
       ELSE stage' = "capabilities" /\ UNCHANGED availability
    /\ UNCHANGED <<result, availabilityFrame>>

\* await ai.languageModel.capabilities() settles: the rest of the try, or the catch
CapabilitiesSettles ==
    /\ stage = "capabilities"
    /\ availability' = IF AiOf(globals).capabilities = "rejects"
                       THEN "API_MISSING"
                       ELSE Available(AiOf(globals).capabilities)
    /\ stage' = "probed"
    /\ UNCHANGED <<result, availabilityFrame>>

\* getAvailability has returned to its caller; getModels:
\* return status === 'AVAILABLE' ? ['gemini-nano'] : []
AvailabilityReturns ==
    /\ stage = "probed"
    /\ stage' = "returned"
    /\ result' = IF method = "getModels"
                 THEN [returned |-> TRUE, valid |-> FALSE,
                       list |-> IF availability = "AVAILABLE" THEN <<ID_geminiNano>> ELSE <<>>]
                 ELSE result
    /\ UNCHANGED <<availability, availabilityFrame>>

NextAvailability == GetAvailability \/ CapabilitiesSettles \/ AvailabilityReturns

SpecAvailability == InitAvailability /\ [][NextAvailability]_vars

\* C32: getAvailability returns API_MISSING when neither self.ai nor window.ai
\* has a languageModel API or the capabilities probe throws, MODEL_NOT_READY
\* when capabilities.available is 'no' and AVAILABLE in every other case; the
\* on-device getModels returns ['gemini-nano'] exactly when the probe result
\* is AVAILABLE and the empty list otherwise.
C32_AvailabilityProbe ==
    stage = "returned" =>
        /\ availability =
              IF \/ ~(globals.self.defined \/ globals.window.defined)
                 \/ (globals.self.defined /\ ~globals.self.languageModel)
                 \/ (~globals.self.defined /\ ~globals.window.languageModel)
                 \/ (IF globals.self.defined THEN globals.self ELSE globals.window).capabilities
                        = "rejects"
              THEN "API_MISSING"
              ELSE IF (IF globals.self.defined THEN globals.self
                       ELSE globals.window).capabilities = "no"
                   THEN "MODEL_NOT_READY"
                   ELSE "AVAILABLE"
        /\ method = "getModels" =>
              /\ result.returned
              /\ (availability = "AVAILABLE") <=> (result.list = <<ID_geminiNano>>)
              /\ (availability # "AVAILABLE") <=> (result.list = <<>>)

\* getModels has returned the empty list for a browser whose model is not ready
C32_Witness ==
    /\ stage = "returned"
    /\ method = "getModels"
    /\ globals.self = Ai(TRUE, "no")
    /\ availability = "MODEL_NOT_READY"
    /\ result.list = <<>>

(***************************************************************************)
(* The panel and chrome.storage.local.  Every setting of the App is a      *)
(* useStorage hook (README.md): its value starts as the initial value, the *)
(* mount effect asks the storage for the item and registers a listener,    *)
(* and the setter writes the resolved value to the storage.  The storage   *)
(* serves the requests of the page in their order and its answers reach    *)
(* the page in that order: first the items as they were when the panel     *)
(* opened, hook by hook, then one change event per write that changed an   *)
(* item.  The probe of checkChromeAI, the user and the network are not     *)
(* ordered with respect to the storage or to each other.                   *)
(***************************************************************************)

MaxPanelActs == 2

\* the keys of the useStorage calls of App that this model follows, in the
\* order of the calls
Hooks ==
    <<"openai_key", "anthropic_key", "gemini_key", "selected_provider", "selected_model",
      "cached_models">>

StorageKeys == {Hooks[i] : i \in DOMAIN Hooks}

\* the second argument of each useStorage call of App
InitialValue ==
    [openai_key |-> <<>>, anthropic_key |-> <<>>, gemini_key |-> <<>>,
     selected_provider |-> "openai", selected_model |-> ID_gpt4oMini,
     cached_models |-> EmptyCache]

\* an item of the storage, and a key that holds none
Item(v) == [has |-> TRUE, v |-> v]
NoItem(k) == [has |-> FALSE, v |-> InitialValue[k]]

Fresh == [k \in StorageKeys |-> NoItem(k)]
Persisted(items, k, v) == [items EXCEPT ![k] = Item(v)]

\* what earlier sessions can have left in the storage: nothing; a verified
\* OpenAI key; verified OpenAI and Anthropic keys; a provider picked in the
\* Select without a key; the on-device provider; a Gemini key typed but
\* never verified
Profiles ==
    {Fresh,
     Persisted(Persisted(Persisted(Persisted(Fresh, "openai_key", KEY_skA),
         "selected_provider", "openai"), "selected_model", ID_gpt4o),
         "cached_models", WithEntry(EmptyCache, "openai", <<ID_gpt4o, ID_gpt4oMini>>)),
     Persisted(Persisted(Persisted(Persisted(Persisted(Fresh, "openai_key", KEY_skA),
         "anthropic_key", KEY_skAntA),
         "selected_provider", "anthropic"), "selected_model", ID_haiku35),
         "cached_models", WithEntry(WithEntry(EmptyCache, "openai", <<ID_gpt4o>>),
                                    "anthropic", <<ID_opus3, ID_haiku35>>)),
     Persisted(Persisted(Fresh, "selected_provider", "gemini"),
         "selected_model", ID_geminiPro),
     Persisted(Persisted(Fresh, "selected_provider", "chrome"),
         "selected_model", ID_geminiNano),
     Persisted(Persisted(Fresh, "gemini_key", KEY_geminiA),
         "cached_models", WithEntry(EmptyCache, "gemini", <<ID_geminiPro, ID_flash>>))}

\* the hook that holds the key of a provider
KeyOf == [openai |-> "openai_key", anthropic |-> "anthropic_key", gemini |-> "gemini_key"]

\* the lists that getModels returns in this session
ListReturned == [openai |-> <<ID_gpt35Turbo>>, anthropic |-> <<ID_sonnet35, ID_haiku35>>]

\* what the storage sends to the page: the result of get, or a change event
GetResult(k, item) == [key |-> k, get |-> TRUE, has |-> item.has, v |-> item.v]
Change(k, v) == [key |-> k, get |-> FALSE, has |-> TRUE, v |-> v]

\* result[key] !== undefined && result[key] !== null
HasItem(msg) == msg.has

Page == [value |-> value, stored |-> stored, channel |-> channel]

Becomes(page) ==
    /\ value' = page.value
    /\ stored' = page.stored
    /\ channel' = page.channel

\* a variant of the setter that keeps the write in memory only
SetValueOnly(page, k, v) ==
    [page EXCEPT !.value = [page.value EXCEPT ![k] = v]]

\* setStoredValue with the value its argument resolves to:
\* setValue(prev => { chrome.storage.local.set({ [key]: resolvedValue }); return resolvedValue })
SetStoredValue(page, k, v) ==
    [value |-> [page.value EXCEPT ![k] = v],
     stored |-> [page.stored EXCEPT ![k] = Item(v)],
     channel |-> IF page.stored[k] = Item(v)
                 THEN page.channel
                 ELSE Append(page.channel, Change(k, v))]

\* the effect of lines 102-107 has work to do in the committed render; React
\* runs the effects of a render before it renders another update
EffectDue ==
    ValidModel(CurrentModels(value.cached_models, value.selected_provider),
               value.selected_model) # value.selected_model

InitPanel ==
    /\ NoRun
    /\ NoDecode
    /\ NoCatalog
    /\ NoPrompt
    /\ models = <<>>
    /\ bestModel = <<>>
    /\ currentModels = <<>>
    /\ applied = {}
    /\ provider = "chrome"
    /\ method = NotUsed
    /\ apiKey = <<>>
    /\ server = NotUsed
    /\ stage = NotUsed
    /\ listRequests = 0
    /\ result = NoResult
    /\ globals = NotUsed
    /\ availability = NotUsed
    /\ chromeAIStatus = "API_MISSING"
    /\ probe = "pending"
    /\ stored \in Profiles
    /\ opened = stored
    /\ value = InitialValue
    /\ channel = SelectSeq([i \in DOMAIN Hooks |-> GetResult(Hooks[i], stored[Hooks[i]])],
                            HasItem)
    /\ panelActs = 0

panelFrame ==
    <<decodeVars, runVars, catalogVars, models, bestModel, currentModels, applied,
      promptVars, method, apiKey, server, stage, listRequests, result, globals,
      availability, opened>>

\* the callback of chrome.storage.local.get([key], ...) for a key that held
\* an item; for a key that held none it changes nothing the App reads
StorageGot ==
    /\ ~EffectDue
    /\ channel # <<>>
    /\ Head(channel).get
    /\ value' = [value EXCEPT ![Head(channel).key] = Head(channel).v]
    /\ channel' = Tail(channel)
    /\ UNCHANGED <<stored, chromeAIStatus, probe, panelActs, panelFrame>>

\* the listener of chrome.storage.onChanged
StorageChanged ==
    /\ ~EffectDue
    /\ channel # <<>>
    /\ ~Head(channel).get
    /\ value' = [value EXCEPT ![Head(channel).key] = Head(channel).v]
    /\ channel' = Tail(channel)
    /\ UNCHANGED <<stored, chromeAIStatus, probe, panelActs, panelFrame>>

\* checkChromeAI after its await.  It was called by the mount effect, so the
\* openaiKey, anthropicKey, geminiKey and selectedProvider it reads are those
\* of the first render: the initial values of the hooks
CheckChromeAI(st) ==
    /\ ~EffectDue
    /\ probe = "pending"
    /\ probe' = "resolved"
    /\ chromeAIStatus' = st
    /\ IF /\ st = "AVAILABLE"
          /\ InitialValue.openai_key = <<>>
          /\ InitialValue.anthropic_key = <<>>
          /\ InitialValue.gemini_key = <<>>
          /\ InitialValue.selected_provider = "openai"
       THEN Becomes(SetStoredValue(SetStoredValue(Page, "selected_provider", "chrome"),
                                   "selected_model", ID_geminiNano))
       ELSE UNCHANGED <<value, stored, channel>>
    /\ UNCHANGED <<panelActs, panelFrame>>

\* onValueChange of the provider Select
SelectProvider(v) ==
    /\ ~EffectDue
    /\ panelActs < MaxPanelActs
    /\ panelActs' = panelActs + 1
    /\ Becomes(SetStoredValue(Page, "selected_provider", v))
    /\ UNCHANGED <<chromeAIStatus, probe, panelFrame>>

\* setCachedModels(prev => ({ ...prev, [provider]: models }))
WithList(page, p, ms) ==
    SetStoredValue(page, "cached_models", WithEntry(page.value.cached_models, p, ms))

\* const bestModel = pickBestModel(models, provider); if (bestModel) setModel(bestModel)
WithBest(page, best) ==
    IF best # <<>> THEN SetStoredValue(page, "selected_model", best) ELSE page

\* handleVerifyKey, called with the key of the hook (if (!apiKey) return),
\* after getModels returned a non-empty list
VerifySucceeds(p, ms) ==
    /\ ~EffectDue
    /\ value[KeyOf[p]] # <<>>
    /\ panelActs < MaxPanelActs
    /\ panelActs' = panelActs + 1
    /\ Becomes(WithBest(SetStoredValue(WithList(Page, p, ms), "selected_provider", p),
                        pickBestModel(ms, p)))
    /\ UNCHANGED <<chromeAIStatus, probe, panelFrame>>

\* fetchModels, called with the key of the hook (if (!apiKey) return), after
\* getModels returned a non-empty list
FetchSucceeds(p, ms) ==
    /\ ~EffectDue
    /\ value[KeyOf[p]] # <<>>
    /\ panelActs < MaxPanelActs
    /\ panelActs' = panelActs + 1
    /\ Becomes(WithList(Page, p, ms))
    /\ UNCHANGED <<chromeAIStatus, probe, panelFrame>>

\* the effect that keeps the selected model one of currentModels
ModelEffect ==
    /\ EffectDue
    /\ Becomes(SetStoredValue(Page, "selected_model",
                   ValidModel(CurrentModels(value.cached_models, value.selected_provider),
                              value.selected_model)))
    /\ UNCHANGED <<chromeAIStatus, probe, panelActs, panelFrame>>

NextPanel ==
    \/ StorageGot
    \/ StorageChanged
    \/ \E st \in {"AVAILABLE", "API_MISSING", "MODEL_NOT_READY"} : CheckChromeAI(st)
    \/ \E v \in Services : SelectProvider(v)
    \/ \E p \in DOMAIN ListReturned : VerifySucceeds(p, ListReturned[p])
    \/ \E p \in DOMAIN ListReturned : FetchSucceeds(p, ListReturned[p])
    \/ ModelEffect

SpecPanel == InitPanel /\ [][NextPanel]_vars

\* React runs a pending effect; the storage delivers what it has sent
SpecPanelFair ==
    /\ SpecPanel
    /\ WF_vars(ModelEffect)
    /\ WF_vars(StorageGot)
    /\ WF_vars(StorageChanged)

\* the storage held a provider key, or a provider other than the default,
\* when the panel opened
HadSettings ==
    \/ opened.openai_key.v # <<>>
    \/ opened.anthropic_key.v # <<>>
    \/ opened.gemini_key.v # <<>>
    \/ (opened.selected_provider.has /\ opened.selected_provider.v # "openai")

\* C34: checkChromeAI switches the provider to 'chrome' only if the persisted
\* settings hold no OpenAI, Anthropic or Gemini key and the persisted provider
\* is 'openai': as long as the user has done nothing, a user with a stored
\* key or a stored non-default provider keeps the provider the storage held,
\* in the storage and, once the storage has delivered everything, in memory,
\* whatever the order of the load callbacks and the probe.
C34_AutoEnableRespectsStorage ==
    (panelActs = 0 /\ HadSettings) =>
        /\ stored.selected_provider = opened.selected_provider
        /\ channel = <<>> =>
              value.selected_provider = opened.selected_provider.v

\* every entry of the cached lists that the storage held at opening is
\* still there
EntriesKept ==
    \A p \in Services :
        opened.cached_models.v.entries[p].has => stored.cached_models.v.entries[p].has

\* with nothing left to deliver, the hooks hold what the storage holds
InSync ==
    channel = <<>> => \A k \in StorageKeys : stored[k].has => value[k] = stored[k].v

\* C35: a write through useStorage issued before the callback of
\* chrome.storage.local.get has run never removes entries already persisted
\* under that key, and after all callbacks and change events are delivered
\* the in-memory value equals the stored value.
C35_EarlyWritesLoseNothing == EntriesKept /\ InSync

\* C37: the selected model converges to a member of the current model list
\* of the selected provider: from some point on it is always a member, and
\* whenever it is not a member and the list is non-empty it is eventually
\* the first element of the list.
C37_ModelConverges ==
    /\ <>[]Includes(CurrentModels(value.cached_models, value.selected_provider),
                    value.selected_model)
    /\ (/\ ~Includes(CurrentModels(value.cached_models, value.selected_provider),
                     value.selected_model)
        /\ CurrentModels(value.cached_models, value.selected_provider) # <<>>)
          ~> (value.selected_model =
                 CurrentModels(value.cached_models, value.selected_provider)[1])

\* the user picked the on-device provider in the Select of a fresh install
\* whose probe did not report AVAILABLE: only the effect can have set the model
C37_Witness ==
    /\ opened = Fresh
    /\ probe = "resolved"
    /\ chromeAIStatus = "MODEL_NOT_READY"
    /\ panelActs = 1
    /\ channel = <<>>
    /\ value.selected_provider = "chrome"
    /\ value.selected_model = ID_geminiNano
    /\ stored.selected_model = Item(ID_geminiNano)

\* C38: the frame of a refresh, in the storage that holds the cache.  A
\* successful fetchModels or handleVerifyKey for provider p leaves the
\* stored lists of every other provider exactly as they were: a step that
\* writes cached_models changes the entry of one provider only.
C38_StoredFrame ==
    [][stored'.cached_models # stored.cached_models =>
          \E p \in Services : \A q \in Services \ {p} :
              stored'.cached_models.v.entries[q] = stored.cached_models.v.entries[q]]_vars

====
